---- MODULE Spec2Model ----
(***************************************************************************)
(* The replication controller of Bubod (src/Bubod/mysql/binlog.go): the    *)
(* reconnection loop of BinlogDump.StartDumpBinlog, one dump session       *)
(* (startConnAndDumpBinlog, mysqlConn.DumpBinlog), the event dispatch of   *)
(* eventParser.parseEvent and the control operations Stop, Start, Close    *)
(* and KillDump, which other goroutines call while the loop runs.          *)
(*                                                                         *)
(* Binlog file names are numbered: 0 is the empty string "", n > 0 is the  *)
(* n-th file of the server ("mysql-bin.00000n"), so that the order of the  *)
(* numbers is the lexicographic order of the names.  A connection is a     *)
(* number too, 0 being the nil interface value.                            *)
(***************************************************************************)
EXTENDS Integers, Sequences, FiniteSets, TLC

VARIABLES
    binlog,             \* server: the events of its binary log, in order
    connAlive,          \* server: the dump connections that are open
    nextConn,           \* server: the id the next connection gets
    cursor,             \* server: index of the next event it sends on the dump
    pc,                 \* the controller goroutine's position
    mc,                 \* receiver of mysqlConn.DumpBinlog (the dump's own socket)
    cur,                \* the *EventReslut the dump loop holds
    dumpBinLogStatus,   \* parser.dumpBinLogStatus, the command register
    binlogFileName,     \* parser.binlogFileName
    binlogPosition,     \* parser.binlogPosition
    maxBinlogFileName,  \* parser.maxBinlogFileName
    maxBinlogPosition,  \* parser.maxBinlogPosition
    replicateDoDb,      \* parser.replicateDoDb
    eventDo,            \* parser.eventDo, as the set of types flagged true
    tableMap,           \* parser.tableMap, as the set of its TableMap events
    tableNameMap,       \* parser.tableNameMap, as a set of <<db, table, id>>
    tableSchemaMap,     \* parser.tableSchemaMap: id -> length of the column list held
    connStatus,         \* parser.connStatus (the schema session)
    connectionId,       \* parser.connectionId, 0 for ""
    mysqlConn,          \* BinlogDump.mysqlConn, 0 for nil
    Status,             \* BinlogDump.Status
    result,             \* the last value sent on the result channel
    api,                \* position of the goroutine calling Close / KillDump
    delivered,          \* history: the events given to the callback, in order
    posAtRead,          \* history: (file, position) when the held event's packet was read
    lastOp,             \* history: the last operation called on the BinlogDump
    ops,                \* history: number of control operations called
    restarts,           \* history: number of restarts of the agent
    restartAt,          \* history: Len(delivered) at the last restart
    wd,                 \* the checkDumpConnection goroutine of each connection id
    lost,               \* server: the connections that are gone without a close
    binlog_checksum,    \* parser.binlog_checksum
    dumpCmd,            \* the (file, position) of the last COM_BINLOG_DUMP written, <<>> at first
    server,             \* server: what it answers on the bootstrap queries
    dumpConfig,         \* lib.DumpConfig: BinlogDumpFileName, BinlogDumpPosition, SyncPos
    checkpoint,         \* history: the strings written to the checkpoint file, in order
    wire,               \* the input of a decoder run on its own
    decoded,            \* what the decoder made of it, <<>> before it ran
    connLock,           \* parser.connLock: the goroutine that holds it, "" when free
    dumpLock,           \* BinlogDump.connLock: the goroutine that holds it, "" when free
    conn,               \* parser.conn, the schema session, is open
    stage               \* where each goroutine is in the code that takes the locks

vars == <<binlog, connAlive, nextConn, cursor, pc, mc, cur, dumpBinLogStatus,
          binlogFileName, binlogPosition, maxBinlogFileName, maxBinlogPosition,
          replicateDoDb, eventDo, tableMap, tableNameMap, tableSchemaMap,
          connStatus, connectionId, mysqlConn, Status, result, api, delivered,
          posAtRead, lastOp, ops, restarts, restartAt, wd, lost,
          binlog_checksum, dumpCmd, server, dumpConfig, checkpoint, wire, decoded,
          connLock, dumpLock, conn, stage>>

serverVars == <<binlog, connAlive, nextConn, cursor>>
configVars == <<maxBinlogFileName, maxBinlogPosition, replicateDoDb, eventDo>>
cacheVars  == <<tableMap, tableNameMap, tableSchemaMap>>
posVars    == <<binlogFileName, binlogPosition>>
histVars   == <<delivered, posAtRead, lastOp, ops, restarts, restartAt>>
watchVars  == <<wd, lost>>
sessVars   == <<binlog_checksum, dumpCmd, server>>
sideVars   == <<dumpConfig, checkpoint, wire, decoded>>
lockVars   == <<connLock, dumpLock, conn, stage>>

\* All that belongs to the replication controller and its server.
ctlVars ==
    <<serverVars, configVars, cacheVars, posVars, histVars, watchVars, sessVars,
      pc, mc, cur, dumpBinLogStatus, connStatus, connectionId, mysqlConn,
      Status, result, api, lockVars>>

(***************************************************************************)
(* Bounds of the model.                                                    *)
(***************************************************************************)
MaxEvents   == 3    \* events in the server's binary log
MaxConns    == 2    \* dump connections the server accepts
MaxOps      == 2    \* control operations called
MaxRestarts == 1    \* restarts of the agent from its current position
MaxWrites   == 3    \* writes of the checkpoint writer
MaxRuns     == 2    \* runs of a decoder on one input
MaxChanges  == 2    \* logical row changes in an UPDATE rows event

\* Offset of the first event of a binlog file (after the 4-byte magic).
FirstEventPos == 4

\* The agent is started in the middle of file 1: StartDumpBinlog(1, StartPos).
StartFile == 1
StartPos  == FirstEventPos + 2

(***************************************************************************)
(* The server's binary log.  An entry is the body of one event; its file   *)
(* and its offsets follow from its place in the log: every event is one    *)
(* unit long and a Rotate event ends its file.  The log holds the events   *)
(* from (StartFile, StartPos) on.                                          *)
(***************************************************************************)
Tids == {1}

Packet(t, s, a, i) ==
    [type |-> t, schema |-> s, alter |-> a, tid |-> i,
     bad |-> FALSE, row |-> <<>>, text |-> ""]

\* type: the event type byte; schema: the default database of a Query or the
\* database of a TableMap; alter: the database named by ALTER TABLE `db`.`t`
\* ("" when the statement is no ALTER TABLE); tid: the table id; bad: the
\* event's decoder returns an error (a Rotate cut short before its position,
\* a TableMap with a column type parseColumnMetadata does not know); row:
\* the columns of the one row of a Rows event, in order, a column not listed
\* being a LONG that is not NULL; text: the message of a packet that is no
\* event.
Packets ==
    { Packet("HEARTBEAT_EVENT", "", "", 0),
      Packet("FORMAT_DESCRIPTION_EVENT", "", "", 0),
      Packet("XID_EVENT", "", "", 0),
      Packet("ROTATE_EVENT", "", "", 0),
      Packet("QUERY_EVENT", "db2", "", 0),
      Packet("QUERY_EVENT", "db2", "db1", 0),
      Packet("TABLE_MAP_EVENT", "db1", "", 1),
      Packet("WRITE_ROWS_EVENTv2", "db1", "", 1) }

EventTypes == { p.type : p \in Packets }

Bad(p) == [p EXCEPT !.bad = TRUE]

\* A Rows event of db1.t whose row has the columns r.
RowsOf(r) == [Packet("WRITE_ROWS_EVENTv2", "db1", "", 1) EXCEPT !.row = r]

\* What a column of a row is: a LONG or a YEAR that is not NULL, a YEAR whose
\* byte is 0, a NULL of any type, a DECIMAL.
ColumnKinds == {"LONG", "YEAR", "YEAR_0", "NULL", "DECIMAL"}

\* A packet whose first byte is neither 0 nor 254: the server's error reply.
\* In the stream it takes the place of an event.
NoFirstLogFile == "Could not find first log file name in binary log index file"

\* A packet whose first byte is 254.
EofPacket == [Packet("EOF_PACKET", "", "", 0) EXCEPT !.text = "EOF"]

ErrPacket(text) == [Packet("ERR_PACKET", "", "", 0) EXCEPT !.text = text]

Max(S) == CHOOSE x \in S : \A y \in S : y <= x

LastRotateBefore(i) ==
    Max({0} \cup { j \in 1..(i - 1) : binlog[j].type = "ROTATE_EVENT" })

FileAt(i) ==
    StartFile + Cardinality({ j \in 1..(i - 1) : binlog[j].type = "ROTATE_EVENT" })

StartAt(i) ==
    (IF LastRotateBefore(i) = 0 THEN StartPos ELSE FirstEventPos)
        + (i - LastRotateBefore(i) - 1)

\* next_position of the header of event i
LogPosAt(i) == StartAt(i) + 1

\* SHOW MASTER STATUS: the end of the log
MasterFile == FileAt(Len(binlog) + 1)
MasterPos  == StartAt(Len(binlog) + 1)

\* The table db1.t has one column at the start of the log and every ALTER
\* TABLE of the log adds one.  ColumnsAt(i) is the number of columns when
\* event i was logged, which is the column count of a TableMap event i;
\* ServerColumns is the number the table has now, the log being executed.
ColumnsAt(i) ==
    1 + Cardinality({ j \in 1..(i - 1) : binlog[j].alter = "db1" })

ServerColumns == ColumnsAt(Len(binlog) + 1)

\* COM_BINLOG_DUMP(file, pos): the first event at or after (file, pos)
Locate(file, pos) ==
    LET at == { i \in 1..Len(binlog) :
                  \/ FileAt(i) > file
                  \/ FileAt(i) = file /\ StartAt(i) >= pos }
    IN  IF at = {} THEN Len(binlog) + 1
        ELSE CHOOSE i \in at : \A j \in at : i <= j


(***************************************************************************)
(* eventParser.parseEvent.  The result holds the event handed back (Nil    *)
(* for the nil pointer), the parser fields as parseEvent leaves them, and  *)
(* whether decoding ran into a runtime panic.                              *)
(***************************************************************************)
NilTypes == {"HEARTBEAT_EVENT"}

Nil == [EventType |-> "nil", LogPos |-> 0, BinlogFileName |-> 0,
        BinlogPosition |-> 0, SchemaName |-> "", Query |-> "", Rows |-> {},
        idx |-> 0]

\* An EventReslut; a field the code leaves out of the literal has Go's zero
\* value: 0 for the file name "" and for the position.  Rows is the set of
\* keys of the row map of a Rows event.
EventReslut(i, file, pos, schema) ==
    [EventType |-> binlog[i].type, LogPos |-> LogPosAt(i),
     BinlogFileName |-> file, BinlogPosition |-> pos,
     SchemaName |-> schema, Query |-> binlog[i].alter, Rows |-> {}, idx |-> i]

Parsed(ev, file, pos, tm, tnm, tsm, cs, panic) ==
    [event |-> ev, binlogFileName |-> file, binlogPosition |-> pos,
     tableMap |-> tm, tableNameMap |-> tnm, tableSchemaMap |-> tsm,
     connStatus |-> cs, panic |-> panic, err |-> FALSE]

\* parseEvent returns r's event together with an error.
Failed(r) == [r EXCEPT !.err = TRUE]

\* tableNameMap[db+"."+table] = id
PutName(tnm, db, table, id) ==
    { e \in tnm : ~(e[1] = db /\ e[2] = table) } \cup { <<db, table, id>> }

\* parser.tableMap[id] = table_map_event; columns is len(columnTypes)
PutTable(tm, id, schema, columns) ==
    { e \in tm : e.tableId # id }
        \cup { [tableId |-> id, schemaName |-> schema, columns |-> columns] }

HasTable(tm, id) == \E e \in tm : e.tableId = id
SchemaNameOf(tm, id) == (CHOOSE e \in tm : e.tableId = id).schemaName
ColumnsOf(tm, id) == (CHOOSE e \in tm : e.tableId = id).columns

\* eventParser.GetTableId
GetTableId(tnm, db, table) ==
    IF \E e \in tnm : e[1] = db /\ e[2] = table
    THEN (CHOOSE e \in tnm : e[1] = db /\ e[2] = table)[3]
    ELSE 0

\* eventParser.GetTableSchemaByName, on the attempt that succeeds: the rows
\* the query on information_schema.columns returns, one for each column the
\* table has now, are appended to the entry of the table id.
GetTableSchemaByName(tsm, id) == [tsm EXCEPT ![id] = @ + ServerColumns]

\* The name of entry k of a schema cache entry: the query returns the
\* columns in their order, column c of the table being named c, and every
\* fetch appends all of them.
COLUMN_NAME(k) == ((k - 1) % ServerColumns) + 1

\* eventParser.parseEventRow on the row `values` of a table of `columns`
\* columns: the keys of the row map, or an error.  A NULL column gets the
\* key with the value nil; a YEAR gets its key when its byte is not 0; a
\* DECIMAL ends the decoding with an error.
parseEventRow(values, columns) ==
    LET kind(k) == IF k \in DOMAIN values THEN values[k] ELSE "LONG"
    IN  [err  |-> \E k \in 1..columns : kind(k) = "DECIMAL",
         keys |-> { COLUMN_NAME(k) :
                      k \in { j \in 1..columns : kind(j) # "YEAR_0" } }]

\* The dispatch of parseEvent on the event type.  A decoder that fails hands
\* back what it has read so far, and the branch goes on with it.
parseEventOfType(i) ==
    LET p == binlog[i]
        same(ev) == Parsed(ev, binlogFileName, binlogPosition, tableMap,
                           tableNameMap, tableSchemaMap, connStatus, FALSE)
    IN  CASE p.type \in NilTypes -> same(Nil)
          [] p.type = "FORMAT_DESCRIPTION_EVENT" ->
                same(EventReslut(i, 0, 0, ""))
          [] p.type = "QUERY_EVENT" ->
                same(EventReslut(i, binlogFileName, 0, p.schema))
          [] p.type = "ROTATE_EVENT" ->
                IF p.bad
                THEN Parsed(EventReslut(i, 0, 0, ""), 0, 0, tableMap,
                            tableNameMap, [t \in Tids |-> 0], connStatus, FALSE)
                ELSE Parsed(EventReslut(i, FileAt(i) + 1, FirstEventPos, ""),
                            FileAt(i) + 1, FirstEventPos, tableMap, tableNameMap,
                            [t \in Tids |-> 0], connStatus, FALSE)
          [] p.type = "TABLE_MAP_EVENT" ->
                LET tm == PutTable(tableMap, p.tid, p.schema, ColumnsAt(i))
                    ev == EventReslut(i, binlogFileName, binlogPosition,
                                      SchemaNameOf(tm, p.tid))
                IN  IF tableSchemaMap[p.tid] = 0
                    THEN Parsed(ev, binlogFileName, binlogPosition, tm,
                                PutName(tableNameMap, p.schema, "t", p.tid),
                                GetTableSchemaByName(tableSchemaMap, p.tid),
                                1, FALSE)
                    ELSE Parsed(ev, binlogFileName, binlogPosition, tm,
                                tableNameMap, tableSchemaMap, connStatus, FALSE)
          [] p.type = "WRITE_ROWS_EVENTv2" ->
                IF /\ HasTable(tableMap, p.tid)
                   /\ tableSchemaMap[p.tid] >= ColumnsOf(tableMap, p.tid)
                THEN LET row == parseEventRow(p.row, ColumnsOf(tableMap, p.tid))
                         ev  == EventReslut(i, binlogFileName, binlogPosition,
                                            SchemaNameOf(tableMap, p.tid))
                     IN  IF row.err THEN Failed(same(ev))
                         ELSE same([ev EXCEPT !.Rows = row.keys])
                ELSE Parsed(Nil, binlogFileName, binlogPosition, tableMap,
                            tableNameMap, tableSchemaMap, connStatus, TRUE)
          [] OTHER -> same(EventReslut(i, 0, 0, ""))

parseEvent(i) ==
    LET r == parseEventOfType(i)
    IN  IF binlog[i].bad /\ binlog[i].type \notin NilTypes /\ ~r.panic
        THEN Failed(r)
        ELSE r

(***************************************************************************)
(* mysqlConn.DumpBinlog, the handling of one decoded event.                *)
(***************************************************************************)
\* A Query event that is an ALTER TABLE takes the statement's database as its
\* schema name and refreshes the schema of the table when its id is known.
AfterQuery(r) ==
    LET ev == r.event
    IN  IF ev.EventType = "QUERY_EVENT" /\ ev.Query # ""
        THEN LET ev2 == [ev EXCEPT !.SchemaName = ev.Query]
                 id  == GetTableId(r.tableNameMap, ev2.SchemaName, "t")
             IN  IF id > 0
                 THEN [r EXCEPT !.event = ev2,
                                !.tableNameMap = PutName(@, ev2.SchemaName, "t", id),
                                !.tableSchemaMap = GetTableSchemaByName(@, id),
                                !.connStatus = 1]
                 ELSE [r EXCEPT !.event = ev2]
        ELSE r

\* The type byte of the event header: the codes of the binlog protocol for
\* the types parseEvent names, "EVENT_n" standing for a code n it does not
\* name.
EventTypeCode(t) ==
    CASE t = "QUERY_EVENT" -> 2
      [] t = "ROTATE_EVENT" -> 4
      [] t = "FORMAT_DESCRIPTION_EVENT" -> 15
      [] t = "XID_EVENT" -> 16
      [] t = "TABLE_MAP_EVENT" -> 19
      [] t = "HEARTBEAT_EVENT" -> 27
      [] t = "WRITE_ROWS_EVENTv2" -> 30
      [] t = "UPDATE_ROWS_EVENTv2" -> 31
      [] t = "EVENT_36" -> 36
      [] t = "EVENT_255" -> 255
      [] OTHER -> 0

\* len(parser.eventDo)
eventDoLen == 36

\* The database include-set lets the event through.
PassesDb(ev) == replicateDoDb # {} => ev.SchemaName \in replicateDoDb

\* parser.eventDo[int(event.Header.EventType)] is an index out of range.
EventDoOutOfRange(ev) == EventTypeCode(ev.EventType) >= eventDoLen

\* A dispatch that tests the event type and not the database.
PassesFiltersTypeOnly(ev) == ev.EventType \in eventDo

\* The two filters: the database include-set and the subscribed event types.
PassesFilters(ev) ==
    /\ replicateDoDb # {} => ev.SchemaName \in replicateDoDb
    /\ ev.EventType \in eventDo

\* The maximum-position test.
MaxReached(ev) ==
    /\ ev.BinlogFileName = maxBinlogFileName
    /\ ev.LogPos >= maxBinlogPosition


(***************************************************************************)
(* BinlogDump.checkDumpConnection(connectionId), one goroutine for each    *)
(* connection id.  pc is its position: "off", not to be started; "ready",  *)
(* started when the connection has its id; "sleep", in time.Sleep at the   *)
(* top of its loop; "poll", in the loop of GetConnectionInfo calls;        *)
(* "lock", before parser.connLock.Lock(); "closing", holding that lock     *)
(* and about to close the dump connection; "leaked", returned after the    *)
(* close with the lock still held; "done", returned with the lock free.    *)
(* tries counts the GetConnectionInfo calls of the round and m is the last *)
(* result: "nil", "empty" (a map with no TIME) or "row".                   *)
(***************************************************************************)
Conns == 1..MaxConns

Watchdog(p, tries, m) == [pc |-> p, tries |-> tries, m |-> m]

\* parser.connLock is free: no watchdog holds it.
ParserLockFree == \A c \in Conns : wd[c].pc \notin {"closing", "leaked"}

(***************************************************************************)
(* The initial state: BinlogDump.StartDumpBinlog(StartFile, StartPos) has  *)
(* built a fresh parser (newEventParser) and is about to enter its loop.   *)
(* The server's log and the configuration are the inputs.                  *)
(***************************************************************************)
Logs == [1..MaxEvents -> Packets]

OnlyEventChoices == { EventTypes, {"QUERY_EVENT", "WRITE_ROWS_EVENTv2"} }
ReplicateDoDbChoices == { {}, {"db1"} }
\* (maxFileName, maxPosition); <<0, 0>> is "no maximum configured"
MaxChoices ==
    { <<0, 0>>, <<StartFile, StartPos + 2>>, <<StartFile + 1, FirstEventPos + 1>> }

\* lib.DumpConfig, the fields InstantSync uses; zk: Conf["Zookeeper"]["server"]
\* is set.  A position string "<file>:<position>" is the pair
\* <<file, position>>, the empty string <<>>.
DumpConfig(file, pos, sync, zk) ==
    [BinlogDumpFileName |-> file, BinlogDumpPosition |-> pos, SyncPos |-> sync,
     Zookeeper |-> zk]

\* What a server answers on the bootstrap queries: `master`, SHOW MASTER
\* STATUS has a row (binary logging is on); `checksum`, the value of the
\* global variable binlog_checksum, "" on a server that has no such variable.
Server(m, c) == [master |-> m, checksum |-> c]

Servers == { Server(m, c) : m \in BOOLEAN, c \in {"", "NONE", "CRC32"} }

\* The goroutines that take the two mutexes: the controller ("loop"), the
\* one that calls Close or KillDump ("caller") and checkDumpConnection
\* ("watchdog").  Where one is: pc, its place; fn, the function of the
\* schema session it is in; res, what that function returns; tries, the
\* calls of GetConnectionInfo made in this round of the watchdog.
Actors == {"loop", "caller", "watchdog"}

At(p, fn, res, tries) == [pc |-> p, fn |-> fn, res |-> res, tries |-> tries]

\* StartDumpBinlog(filename, position): `starts` are the choices of its
\* arguments, `servers` the servers it runs against.
ControllerInit(logs, onlyEvents, doDbs, maxes, watch, starts, servers) ==
    /\ binlog \in logs
    /\ connAlive = {}
    /\ nextConn = 1
    /\ cursor = 1
    /\ pc = "loop"
    /\ mc = 0
    /\ cur = Nil
    /\ dumpBinLogStatus = 1
    /\ \E st \in starts :
           /\ binlogFileName = st[1]
           /\ binlogPosition = st[2]
           /\ posAtRead = st
    /\ \E m \in maxes : maxBinlogFileName = m[1] /\ maxBinlogPosition = m[2]
    /\ replicateDoDb \in doDbs
    /\ eventDo \in onlyEvents
    /\ tableMap = {}
    /\ tableNameMap = {}
    /\ tableSchemaMap = [t \in Tids |-> 0]
    /\ connStatus = 0
    /\ connectionId = 0
    /\ mysqlConn = 0
    /\ Status = ""
    /\ result = ""
    /\ api = "idle"
    /\ delivered = <<>>
    /\ lastOp = "StartDumpBinlog"
    /\ ops = 0
    /\ restarts = 0
    /\ restartAt = 0
    /\ wd = [c \in Conns |-> Watchdog(watch, 0, "nil")]
    /\ lost = {}
    /\ binlog_checksum = FALSE
    /\ dumpCmd = <<>>
    /\ server \in servers
    /\ connLock = ""
    /\ dumpLock = ""
    /\ conn = FALSE
    /\ stage = [a \in Actors |-> At("off", "", "", 0)]

\* No checkpoint writer runs.
NoSync ==
    /\ dumpConfig = DumpConfig(0, 0, <<>>, FALSE)
    /\ checkpoint = <<>>

\* No decoder runs on its own.
NoInput ==
    /\ wire = <<>>
    /\ decoded = <<>>

InitCore(logs, onlyEvents, doDbs, maxes, watch, starts, servers) ==
    /\ ControllerInit(logs, onlyEvents, doDbs, maxes, watch, starts, servers)
    /\ NoSync
    /\ NoInput

\* The controller at rest, while something else is looked at.
ControllerIdle ==
    ControllerInit({<<>>}, {EventTypes}, {{}}, {<<0, 0>>}, "off",
                   {<<StartFile, StartPos>>}, {Server(TRUE, "CRC32")})

InitState(logs, onlyEvents, doDbs, maxes, watch) ==
    InitCore(logs, onlyEvents, doDbs, maxes, watch,
             {<<StartFile, StartPos>>}, {Server(TRUE, "CRC32")})

\* The statement that starts checkDumpConnection is a comment in
\* startConnAndDumpBinlog: no connection has a watchdog.
InitWith(logs, onlyEvents, doDbs, maxes) ==
    InitState(logs, onlyEvents, doDbs, maxes, "off")

Init == InitWith(Logs, OnlyEventChoices, ReplicateDoDbChoices, MaxChoices)

\* The traffic under which the control operations are exercised: statements
\* of one database and heartbeats, everything subscribed, no maximum.
ControlLogs ==
    [1..MaxEvents -> { Packet("QUERY_EVENT", "db2", "", 0),
                       Packet("HEARTBEAT_EVENT", "", "", 0) }]

ControlInit == InitWith(ControlLogs, {EventTypes}, {{}}, {<<0, 0>>})

\* The traffic under which the error paths of the dump loop and the row
\* decoder are exercised: events whose decoder fails, packets that are no
\* events, and rows of one column of every kind; everything subscribed, no
\* maximum.
PacketChoices ==
    { Packet("QUERY_EVENT", "db2", "", 0),
      Packet("TABLE_MAP_EVENT", "db1", "", 1),
      Bad(Packet("TABLE_MAP_EVENT", "db1", "", 1)),
      Bad(Packet("ROTATE_EVENT", "", "", 0)),
      ErrPacket(NoFirstLogFile),
      ErrPacket("Unknown command") }
        \cup { RowsOf(<<k>>) : k \in ColumnKinds }

PacketInit ==
    InitWith([1..MaxEvents -> PacketChoices], {EventTypes}, {{}}, {<<0, 0>>})

\* The traffic under which the schema cache is exercised: one more event
\* than elsewhere, of the four types that touch the cache; everything
\* subscribed, with and without a maximum.
SchemaChoices ==
    { Packet("TABLE_MAP_EVENT", "db1", "", 1),
      Packet("ROTATE_EVENT", "", "", 0),
      Packet("QUERY_EVENT", "db2", "db1", 0),
      Packet("WRITE_ROWS_EVENTv2", "db1", "", 1) }

SchemaInit ==
    InitWith([1..(MaxEvents + 1) -> SchemaChoices], {EventTypes}, {{}},
             {<<0, 0>>, <<StartFile, StartPos + 2>>})

\* checkDumpConnection as startConnAndDumpBinlog would start it, with the
\* statement `go This.checkDumpConnection(connectionId)` in force: every
\* connection gets its watchdog once its id is known.  The traffic is that
\* of the control operations, with and without a maximum.
WatchdogInit ==
    InitState(ControlLogs, {EventTypes}, {{}},
              {<<0, 0>>, <<StartFile, StartPos + 2>>}, "ready")

(***************************************************************************)
(* eventParser.KillConnect(id): under parser.connLock, open the schema     *)
(* session if it is closed and run "kill <id>" on it; the server then      *)
(* drops connection id.  When the session cannot be opened the panic is    *)
(* recovered, the session stays closed and nothing is killed.              *)
(***************************************************************************)
KillConnect(id) ==
    /\ ParserLockFree
    /\ \/ /\ connStatus' = 1
          /\ connAlive' = connAlive \ {id}
       \/ /\ connStatus' = 0
          /\ connAlive' = connAlive

(***************************************************************************)
(* BinlogDump.StartDumpBinlog: the loop, and the deferred close of the     *)
(* schema session when it is left.                                         *)
(***************************************************************************)
\* A loop that makes one attempt only: it returns once a connection has
\* been opened, whatever the command register holds.
StartLoopOnce ==
    /\ pc = "loop"
    /\ IF dumpBinLogStatus \in {2, 3} \/ nextConn > 1
       THEN /\ pc' = "returned"
            /\ connStatus' = 0
            /\ result' = IF dumpBinLogStatus = 2 THEN "close" ELSE result
       ELSE /\ pc' = "open"
            /\ connStatus' = connStatus
            /\ result' = "starting"
    /\ UNCHANGED <<lockVars, sideVars, sessVars, watchVars, serverVars, configVars, cacheVars, posVars, histVars, mc, cur,
                   dumpBinLogStatus, connectionId, mysqlConn, Status, api>>

StartLoop ==
    /\ pc = "loop"
    /\ IF dumpBinLogStatus = 3
       THEN /\ pc' = "returned"
            /\ connStatus' = 0
            /\ result' = result
       ELSE IF dumpBinLogStatus = 2
       THEN /\ pc' = "returned"
            /\ connStatus' = 0
            /\ result' = "close"
       ELSE /\ pc' = "open"
            /\ connStatus' = connStatus
            /\ result' = "starting"
    /\ UNCHANGED <<lockVars, sideVars, sessVars, watchVars, serverVars, configVars, cacheVars, posVars, histVars, mc, cur,
                   dumpBinLogStatus, connectionId, mysqlConn, Status, api>>

(***************************************************************************)
(* BinlogDump.startConnAndDumpBinlog, step 1: open the dump connection.    *)
(***************************************************************************)
OpenConn ==
    /\ pc = "open"
    /\ \/ /\ result' = "error"
          /\ pc' = "loop"
          /\ UNCHANGED <<connAlive, nextConn, mysqlConn>>
       \/ /\ nextConn <= MaxConns
          /\ mysqlConn' = nextConn
          /\ connAlive' = connAlive \cup {nextConn}
          /\ nextConn' = nextConn + 1
          /\ pc' = "connid"
          /\ result' = result
    /\ UNCHANGED <<lockVars, sideVars, sessVars, watchVars, binlog, cursor, configVars, cacheVars, posVars, histVars, mc, cur,
                   dumpBinLogStatus, connStatus, connectionId, Status, api>>

(***************************************************************************)
(* Step 2: SELECT connection_id() on This.mysqlConn.  A nil connection is  *)
(* a nil dereference, which nothing recovers.                              *)
(***************************************************************************)
GetConnectionId ==
    /\ pc = "connid"
    /\ IF mysqlConn = 0
       THEN /\ pc' = "panicked"
            /\ UNCHANGED <<result, connectionId>>
       ELSE IF mysqlConn \notin connAlive
       THEN /\ pc' = "loop"
            /\ result' = "error"
            /\ connectionId' = connectionId
       ELSE \/ /\ pc' = "bootstrap"
               /\ result' = "running"
               /\ connectionId' = mysqlConn
            \/ /\ pc' = "loop"
               /\ UNCHANGED <<result, connectionId>>
    /\ wd' = IF pc' = "bootstrap" /\ wd[mysqlConn].pc = "ready"
             THEN [wd EXCEPT ![mysqlConn].pc = "sleep"]
             ELSE wd
    /\ UNCHANGED <<lockVars, sideVars, sessVars, lost, serverVars, configVars, cacheVars, posVars, histVars, mc, cur,
                   dumpBinLogStatus, connStatus, mysqlConn, Status, api>>

(***************************************************************************)
(* Steps 3 and 4: getMasterFilePosition when no file name is set, then     *)
(* checksum_enabled; both call This.mysqlConn.Prepare and defer a Close on *)
(* the statement it returns.                                               *)
(***************************************************************************)
\* The value of parser.binlog_checksum after checksum_enabled: set when the
\* query has a row whose value is not the empty string, else left alone.
checksum_enabled ==
    IF mysqlConn \in connAlive /\ server.checksum # "" THEN TRUE
    ELSE binlog_checksum

\* A mutation of step 3 that asks the server also when a file name is set.
MasterFilePositionAlways ==
    IF server.master THEN <<MasterFile, MasterPos>>
    ELSE <<binlogFileName, binlogPosition>>

\* The (file, position) of the parser after step 3: those of SHOW MASTER
\* STATUS when no file name is set and the statement has a row, else the
\* ones it has.  (uint32(pos) cuts a position to 32 bits; the positions of
\* the model are far below.)
MasterFilePosition ==
    IF binlogFileName = 0 /\ server.master
    THEN <<MasterFile, MasterPos>>
    ELSE <<binlogFileName, binlogPosition>>

Bootstrap ==
    /\ pc = "bootstrap"
    /\ IF mysqlConn = 0
       THEN /\ pc' = "panicked"
            /\ UNCHANGED posVars
       ELSE IF mysqlConn \notin connAlive
       THEN /\ pc' \in {"panicked", "dumpcmd"}
            /\ UNCHANGED posVars
       ELSE /\ pc' = "dumpcmd"
            /\ binlogFileName' = MasterFilePosition[1]
            /\ binlogPosition' = MasterFilePosition[2]
    /\ binlog_checksum' = checksum_enabled
    /\ UNCHANGED <<dumpCmd, server, lockVars, sideVars, watchVars, serverVars, configVars, cacheVars, histVars, mc, cur,
                   dumpBinLogStatus, connStatus, connectionId, mysqlConn, Status,
                   result, api>>

(***************************************************************************)
(* Step 5: This.mysqlConn.DumpBinlog(...), up to COM_BINLOG_DUMP.          *)
(***************************************************************************)
\* A mutation of the call that passes the arguments StartDumpBinlog got.
DumpBinlogArgsOfStart == <<StartFile, StartPos>>

\* The (filename, position) startConnAndDumpBinlog passes to DumpBinlog.
DumpBinlogArgs == <<binlogFileName, binlogPosition>>

SendDumpCommand ==
    /\ pc = "dumpcmd"
    /\ IF mysqlConn = 0
       THEN /\ pc' = "panicked"
            /\ UNCHANGED <<mc, cursor, result, dumpCmd>>
       ELSE /\ mc' = mysqlConn
            /\ IF mysqlConn \notin connAlive
               THEN /\ pc' = "sessclose"
                    /\ result' = "error"
                    /\ UNCHANGED <<cursor, dumpCmd>>
               ELSE /\ pc' = "dumploop"
                    /\ result' = result
                    /\ dumpCmd' = DumpBinlogArgs
                    /\ cursor' = Locate(dumpCmd'[1], dumpCmd'[2])
    /\ UNCHANGED <<binlog_checksum, server, lockVars, sideVars, watchVars, binlog, connAlive, nextConn, configVars, cacheVars, posVars,
                   histVars, cur, dumpBinLogStatus, connStatus, connectionId,
                   mysqlConn, Status, api>>


(***************************************************************************)
(* mysqlConn.DumpBinlog, the loop.  Top of the loop: the command register. *)
(* 0 pauses (sleep, report "stop", test again), 2 leaves the loop; every   *)
(* other value goes on to read a packet.                                   *)
(***************************************************************************)
\* A loop whose top does not pause: it reads with the register at 0.
DumpLoopTopNoPause ==
    /\ pc = "dumploop"
    /\ IF dumpBinLogStatus = 2
       THEN /\ pc' = "sessclose"
            /\ result' = "close"
       ELSE /\ pc' = "read"
            /\ result' = IF dumpBinLogStatus = 0 THEN "stop" ELSE result
    /\ UNCHANGED <<lockVars, sideVars, sessVars, watchVars, serverVars, configVars, cacheVars, posVars, histVars, mc, cur,
                   dumpBinLogStatus, connStatus, connectionId, mysqlConn, Status, api>>

DumpLoopTop ==
    /\ pc = "dumploop"
    /\ IF dumpBinLogStatus = 0
       THEN /\ pc' = "dumploop"
            /\ result' = "stop"
       ELSE IF dumpBinLogStatus = 2
       THEN /\ pc' = "sessclose"
            /\ result' = "close"
       ELSE /\ pc' = "read"
            /\ result' = result
    /\ UNCHANGED <<lockVars, sideVars, sessVars, watchVars, serverVars, configVars, cacheVars, posVars, histVars, mc, cur,
                   dumpBinLogStatus, connStatus, connectionId, mysqlConn, Status, api>>

\* A loop that does not look at the error parseEvent returns.
HandlePacketIgnoringErr(i) ==
    LET r0 == parseEvent(i)
        r  == AfterQuery(r0)
    IN  IF r0.panic THEN [r0 EXCEPT !.event = Nil] @@ [outcome |-> "panic"]
        ELSE IF r0.event = Nil THEN r0 @@ [outcome |-> "nil"]
        ELSE IF PassesDb(r.event) /\ EventDoOutOfRange(r.event)
             THEN [r EXCEPT !.event = Nil] @@ [outcome |-> "panic"]
        ELSE IF ~PassesFilters(r.event) THEN r @@ [outcome |-> "drop"]
        ELSE IF MaxReached(r.event) THEN r @@ [outcome |-> "max"]
        ELSE r @@ [outcome |-> "deliver"]

\* A loop that stores the position of an event before the filters drop it.
HandlePacketAdvancing(i) ==
    LET r0 == parseEvent(i)
        r  == AfterQuery(r0)
    IN  IF r0.panic THEN [r0 EXCEPT !.event = Nil] @@ [outcome |-> "panic"]
        ELSE IF r0.err THEN r0 @@ [outcome |-> "error"]
        ELSE IF r0.event = Nil THEN r0 @@ [outcome |-> "nil"]
        ELSE IF PassesDb(r.event) /\ EventDoOutOfRange(r.event)
             THEN [r EXCEPT !.event = Nil] @@ [outcome |-> "panic"]
        ELSE IF ~PassesFilters(r.event)
             THEN [r EXCEPT !.binlogPosition = LogPosAt(i)] @@ [outcome |-> "drop"]
        ELSE IF MaxReached(r.event) THEN r @@ [outcome |-> "max"]
        ELSE r @@ [outcome |-> "deliver"]

\* What the loop does with packet i: decode it, then the ALTER TABLE
\* refresh, the filters and the maximum-position test, in the code's order.
HandlePacket(i) ==
    LET r0 == parseEvent(i)
        r  == AfterQuery(r0)
    IN  IF r0.panic THEN [r0 EXCEPT !.event = Nil] @@ [outcome |-> "panic"]
        ELSE IF r0.err THEN r0 @@ [outcome |-> "error"]
        ELSE IF r0.event = Nil THEN r0 @@ [outcome |-> "nil"]
        ELSE IF PassesDb(r.event) /\ EventDoOutOfRange(r.event)
             THEN [r EXCEPT !.event = Nil] @@ [outcome |-> "panic"]
        ELSE IF ~PassesFilters(r.event) THEN r @@ [outcome |-> "drop"]
        ELSE IF MaxReached(r.event) THEN r @@ [outcome |-> "max"]
        ELSE r @@ [outcome |-> "deliver"]

\* Handling packet i calls GetTableSchema: a TableMap event whose id has no
\* schema cache entry, or an ALTER TABLE of a table whose id is known.
NeedsFetch(i) ==
    \/ /\ binlog[i].type = "TABLE_MAP_EVENT"
       /\ tableSchemaMap[binlog[i].tid] = 0
    \/ /\ binlog[i].type = "QUERY_EVENT"
       /\ binlog[i].alter # ""
       /\ GetTableId(tableNameMap, binlog[i].alter, "t") > 0

\* A parser that takes the checksum setting from the format description
\* event of the stream.
parseEventChecksumOfStream(i) ==
    IF binlog[i].type = "FORMAT_DESCRIPTION_EVENT" THEN TRUE
    ELSE binlog_checksum

\* parser.binlog_checksum after parseEvent(i): parseEvent reads the flag to
\* cut the four checksum bytes off the event and assigns it nowhere.
parseEventChecksum(i) == binlog_checksum

\* The loop has packet `cursor` in hand: a packet that is no event is
\* reported, and ends the session when it is the server's "could not find
\* first log file"; an event is decoded and handled up to the callback.
ProcessPacket ==
    /\ cursor' = cursor + 1
    /\ posAtRead' = <<binlogFileName, binlogPosition>>
    /\ IF binlog[cursor].type = "ERR_PACKET"
       THEN /\ result' = IF binlog[cursor].text = NoFirstLogFile
                         THEN "close" ELSE "Unknown packet"
            /\ pc' = IF binlog[cursor].text = NoFirstLogFile
                     THEN "sessclose" ELSE "dumploop"
            /\ UNCHANGED <<cur, dumpBinLogStatus, posVars, cacheVars, connStatus,
                           binlog_checksum>>
       ELSE IF binlog[cursor].type = "EOF_PACKET"
       THEN /\ result' = "EOF packet"
            /\ pc' = "sessclose"
            /\ UNCHANGED <<cur, dumpBinLogStatus, posVars, cacheVars, connStatus,
                           binlog_checksum>>
       ELSE LET h == HandlePacket(cursor)
            IN  /\ binlog_checksum' = parseEventChecksum(cursor)
                /\ binlogFileName' = h.binlogFileName
                /\ binlogPosition' = h.binlogPosition
                /\ tableMap' = h.tableMap
                /\ tableNameMap' = h.tableNameMap
                /\ tableSchemaMap' = h.tableSchemaMap
                /\ connStatus' = h.connStatus
                /\ cur' = h.event
                /\ result' = IF h.outcome = "error" THEN "error" ELSE result
                /\ pc' = CASE h.outcome = "panic" -> "panicked"
                           [] h.outcome = "error" -> "sessclose"
                           [] h.outcome = "max" -> "sessclose"
                           [] h.outcome = "deliver" -> "callback"
                           [] OTHER -> "dumploop"
                /\ dumpBinLogStatus' =
                       IF h.outcome = "max" THEN 2 ELSE dumpBinLogStatus

\* mc.readPacket() and all that follows it up to the callback.  The read
\* blocks while the server has nothing to send on an open connection and
\* fails once the connection is closed or killed.  GetTableSchema waits for
\* parser.connLock.
ReadPacket ==
    /\ pc = "read"
    /\ IF mc \notin connAlive
       THEN /\ pc' = "sessclose"
            /\ result' = "error"
            /\ UNCHANGED <<cursor, cur, dumpBinLogStatus, posVars, cacheVars,
                           connStatus, posAtRead, binlog_checksum>>
       ELSE /\ mc \notin lost
            /\ cursor <= Len(binlog)
            /\ NeedsFetch(cursor) => ParserLockFree
            /\ ProcessPacket
    /\ UNCHANGED <<dumpCmd, server, lockVars, sideVars, watchVars, binlog, connAlive, nextConn, configVars, mc, connectionId,
                   mysqlConn, Status, api, delivered, lastOp, ops, restarts,
                   restartAt>>

(***************************************************************************)
(* eventParser.GetTableSchema: the loop that calls GetTableSchemaByName     *)
(* until it returns no error.  ReadPacket is the run in which the first     *)
(* attempt succeeds; FetchFails is an attempt that fails and FetchSucceeds  *)
(* the attempt that succeeds after one that failed.                         *)
(***************************************************************************)
\* The ways an attempt fails: "open", initConn panics and the session stays
\* closed; "prepare", Prepare fails, the nil statement's Query panics and
\* the recover closes the session; "query", Query returns an error and the
\* function returns it, the session left as it is.
FetchFailures == {"open", "prepare", "query"}

FetchFails ==
    /\ pc \in {"read", "fetch"}
    /\ cursor <= Len(binlog)
    /\ pc = "read" => mc \in connAlive /\ mc \notin lost
    /\ NeedsFetch(cursor)
    /\ ParserLockFree
    /\ LET p  == binlog[cursor]
           db == IF p.type = "TABLE_MAP_EVENT" THEN p.schema ELSE p.alter
           id == IF p.type = "TABLE_MAP_EVENT" THEN p.tid
                 ELSE GetTableId(tableNameMap, p.alter, "t")
       IN  /\ tableMap' = IF p.type = "TABLE_MAP_EVENT"
                          THEN PutTable(tableMap, p.tid, p.schema, ColumnsAt(cursor))
                          ELSE tableMap
           /\ \E kind \in FetchFailures :
                  /\ kind = "open" => connStatus = 0
                  /\ connStatus' = IF kind = "query" THEN 1 ELSE 0
                  /\ tableNameMap' = IF kind = "open" THEN tableNameMap
                                     ELSE PutName(tableNameMap, db, "t", id)
    /\ pc' = "fetch"
    /\ UNCHANGED <<lockVars, sideVars, sessVars, watchVars, serverVars, configVars, posVars, histVars, tableSchemaMap, mc,
                   cur, dumpBinLogStatus, connectionId, mysqlConn, Status,
                   result, api>>

FetchSucceeds ==
    /\ pc = "fetch"
    /\ ParserLockFree
    /\ ProcessPacket
    /\ UNCHANGED <<dumpCmd, server, lockVars, sideVars, watchVars, binlog, connAlive, nextConn, configVars, mc, connectionId,
                   mysqlConn, Status, api, delivered, lastOp, ops, restarts,
                   restartAt>>

\* A loop that stores the event's position first and calls back afterwards.
CallbackAfterAdvance ==
    /\ pc = "callback"
    /\ binlogFileName' = cur.BinlogFileName
    /\ binlogPosition' = cur.LogPos
    /\ delivered' = Append(delivered, cur)
    /\ pc' = "advance"
    /\ UNCHANGED <<lockVars, sideVars, sessVars, watchVars, serverVars, configVars, cacheVars, mc, cur,
                   dumpBinLogStatus, connStatus, connectionId, mysqlConn, Status,
                   result, api, posAtRead, lastOp, ops, restarts, restartAt>>

\* callbackFun(event)
Callback ==
    /\ pc = "callback"
    /\ delivered' = Append(delivered, cur)
    /\ pc' = "advance"
    /\ UNCHANGED <<lockVars, sideVars, sessVars, watchVars, serverVars, configVars, cacheVars, posVars, mc, cur,
                   dumpBinLogStatus, connStatus, connectionId, mysqlConn, Status,
                   result, api, posAtRead, lastOp, ops, restarts, restartAt>>

\* parser.binlogFileName = event.BinlogFileName
\* parser.binlogPosition = event.Header.LogPos
AdvancePosition ==
    /\ pc = "advance"
    /\ binlogFileName' = cur.BinlogFileName
    /\ binlogPosition' = cur.LogPos
    /\ pc' = "dumploop"
    /\ UNCHANGED <<lockVars, sideVars, sessVars, watchVars, serverVars, configVars, cacheVars, histVars, mc, cur,
                   dumpBinLogStatus, connStatus, connectionId, mysqlConn, Status,
                   result, api>>

(***************************************************************************)
(* startConnAndDumpBinlog after DumpBinlog has returned.                   *)
(***************************************************************************)
\* Step 6: under This.connLock, close the dump connection if there is one.
CloseDumpConn ==
    /\ pc = "sessclose"
    /\ api = "idle"
    /\ connAlive' = connAlive \ {mysqlConn}
    /\ mysqlConn' = 0
    /\ pc' = "sessstatus"
    /\ UNCHANGED <<lockVars, sideVars, sessVars, watchVars, binlog, nextConn, cursor, configVars, cacheVars, posVars,
                   histVars, mc, cur, dumpBinLogStatus, connStatus, connectionId,
                   Status, result, api>>

\* Step 7: the exit status.
SetExitStatus ==
    /\ pc = "sessstatus"
    /\ IF dumpBinLogStatus = 3
       THEN UNCHANGED <<result, Status>>
       ELSE IF dumpBinLogStatus = 2
       THEN /\ result' = "close"
            /\ Status' = "close"
       ELSE /\ result' = "starting"
            /\ Status' = "stop"
    /\ pc' = "killconn"
    /\ UNCHANGED <<lockVars, sideVars, sessVars, watchVars, serverVars, configVars, cacheVars, posVars, histVars, mc, cur,
                   dumpBinLogStatus, connStatus, connectionId, mysqlConn, api>>

\* This.parser.KillConnect(This.parser.connectionId), then back to the loop
\* of StartDumpBinlog.
KillOwnConnection ==
    /\ pc = "killconn"
    /\ KillConnect(connectionId)
    /\ pc' = "loop"
    /\ UNCHANGED <<lockVars, sideVars, sessVars, watchVars, binlog, nextConn, cursor, configVars, cacheVars, posVars,
                   histVars, mc, cur, dumpBinLogStatus, connectionId, mysqlConn,
                   Status, result, api>>


(***************************************************************************)
(* The control operations, called from another goroutine while the         *)
(* process lives.  api = "idle" means This.connLock is free; in every      *)
(* other value Close or KillDump holds it.                                 *)
(***************************************************************************)
CanCall ==
    /\ api = "idle"
    /\ pc # "panicked"
    /\ ops < MaxOps

Called(op) ==
    /\ lastOp' = op
    /\ ops' = ops + 1
    /\ UNCHANGED <<delivered, posAtRead, restarts, restartAt>>

\* BinlogDump.Stop
Stop ==
    /\ CanCall
    /\ dumpBinLogStatus' = 0
    /\ Called("Stop")
    /\ UNCHANGED <<lockVars, sideVars, sessVars, watchVars, serverVars, configVars, cacheVars, posVars, pc, mc, cur,
                   connStatus, connectionId, mysqlConn, Status, result, api>>

\* BinlogDump.Start
Start ==
    /\ CanCall
    /\ dumpBinLogStatus' = 1
    /\ Called("Start")
    /\ UNCHANGED <<lockVars, sideVars, sessVars, watchVars, serverVars, configVars, cacheVars, posVars, pc, mc, cur,
                   connStatus, connectionId, mysqlConn, Status, result, api>>

\* BinlogDump.Close up to This.mysqlConn.Close(); on a nil connection the
\* call panics, the deferred recover swallows it and the lock is released.
Close ==
    /\ CanCall
    /\ dumpBinLogStatus' = 2
    /\ connAlive' = connAlive \ {mysqlConn}
    /\ api' = IF mysqlConn = 0 THEN "idle" ELSE "setnil"
    /\ Called("Close")
    /\ UNCHANGED <<lockVars, sideVars, sessVars, watchVars, binlog, nextConn, cursor, configVars, cacheVars, posVars, pc,
                   mc, cur, connStatus, connectionId, mysqlConn, Status, result>>

\* This.mysqlConn = nil, the last statement of Close and of KillDump
SetConnNil ==
    /\ api = "setnil"
    /\ pc # "panicked"
    /\ mysqlConn' = 0
    /\ api' = "idle"
    /\ UNCHANGED <<lockVars, sideVars, sessVars, watchVars, serverVars, configVars, cacheVars, posVars, histVars, pc, mc,
                   cur, dumpBinLogStatus, connStatus, connectionId, Status, result>>

\* BinlogDump.KillDump up to the register
KillDump ==
    /\ CanCall
    /\ dumpBinLogStatus' = 3
    /\ api' = "kill"
    /\ Called("KillDump")
    /\ UNCHANGED <<lockVars, sideVars, sessVars, watchVars, serverVars, configVars, cacheVars, posVars, pc, mc, cur,
                   connStatus, connectionId, mysqlConn, Status, result>>

\* This.parser.KillConnect(This.parser.connectionId) in KillDump
KillDumpKill ==
    /\ api = "kill"
    /\ pc # "panicked"
    /\ KillConnect(connectionId)
    /\ api' = "killclose"
    /\ UNCHANGED <<lockVars, sideVars, sessVars, watchVars, binlog, nextConn, cursor, configVars, cacheVars, posVars,
                   histVars, pc, mc, cur, dumpBinLogStatus, connectionId,
                   mysqlConn, Status, result>>

\* This.mysqlConn.Close() in KillDump; a nil connection ends the call as in Close
KillDumpClose ==
    /\ api = "killclose"
    /\ pc # "panicked"
    /\ connAlive' = connAlive \ {mysqlConn}
    /\ api' = IF mysqlConn = 0 THEN "idle" ELSE "setnil"
    /\ UNCHANGED <<lockVars, sideVars, sessVars, watchVars, binlog, nextConn, cursor, configVars, cacheVars, posVars,
                   histVars, pc, mc, cur, dumpBinLogStatus, connStatus,
                   connectionId, mysqlConn, Status, result>>

(***************************************************************************)
(* BinlogDump.checkDumpConnection, step by step, for connection id c.      *)
(***************************************************************************)
\* time.Sleep(9 s), then the test of the command register
WatchdogWake(c) ==
    /\ wd[c].pc = "sleep"
    /\ wd' = [wd EXCEPT ![c] = IF dumpBinLogStatus >= 2
                               THEN Watchdog("done", 0, "nil")
                               ELSE Watchdog("poll", 0, "nil")]
    /\ UNCHANGED <<lockVars, sideVars, sessVars, serverVars, configVars, cacheVars, posVars, histVars, pc, mc,
                   cur, dumpBinLogStatus, connStatus, connectionId, mysqlConn,
                   Status, result, api, lost>>

\* One call of eventParser.GetConnectionInfo(c), under parser.connLock: nil
\* when the schema session cannot be opened, when Prepare fails (a panic,
\* recovered) or when the query returns an error; else the row of c in the
\* process list, an empty map when the list has no such row.  A nil result
\* is asked for again, up to three calls in all.
WatchdogPoll(c) ==
    /\ wd[c].pc = "poll"
    /\ ParserLockFree
    /\ \E m \in {"nil", "nil, session open", "answer"} :
          LET got == IF m # "answer" THEN "nil"
                     ELSE IF c \in connAlive \ lost THEN "row" ELSE "empty"
          IN  /\ connStatus' = IF m = "nil" THEN 0 ELSE 1
              /\ wd' = [wd EXCEPT ![c] =
                           IF got = "nil" /\ wd[c].tries + 1 < 3
                           THEN Watchdog("poll", wd[c].tries + 1, got)
                           ELSE Watchdog("lock", wd[c].tries + 1, got)]
    /\ UNCHANGED <<lockVars, sideVars, sessVars, serverVars, configVars, cacheVars, posVars, histVars, pc, mc,
                   cur, dumpBinLogStatus, connectionId, mysqlConn, Status,
                   result, api, lost>>

\* This.parser.connLock.Lock() and the two tests made under it
WatchdogLock(c) ==
    /\ wd[c].pc = "lock"
    /\ ParserLockFree
    /\ wd' = [wd EXCEPT ![c].pc =
                 IF c # connectionId THEN "done"
                 ELSE IF wd[c].m \in {"nil", "empty"} THEN "closing"
                 ELSE "sleep"]
    /\ UNCHANGED <<lockVars, sideVars, sessVars, serverVars, configVars, cacheVars, posVars, histVars, pc, mc,
                   cur, dumpBinLogStatus, connStatus, connectionId, mysqlConn,
                   Status, result, api, lost>>

\* Under This.connLock: close This.mysqlConn if there is one and set it to
\* nil; then break, parser.connLock still held.
WatchdogClose(c) ==
    /\ wd[c].pc = "closing"
    /\ api = "idle"
    /\ connAlive' = connAlive \ {mysqlConn}
    /\ mysqlConn' = 0
    /\ wd' = [wd EXCEPT ![c].pc = "leaked"]
    /\ UNCHANGED <<lockVars, sideVars, sessVars, binlog, nextConn, cursor, configVars, cacheVars, posVars,
                   histVars, pc, mc, cur, dumpBinLogStatus, connStatus,
                   connectionId, Status, result, api, lost>>

\* The server, or the network, drops the dump connection without a word:
\* the process list has no row for it any more and nothing arrives on it,
\* but the agent's read still blocks.
LoseConnection ==
    /\ pc \in {"dumploop", "read"}
    /\ mc \in connAlive \ lost
    /\ lost' = lost \cup {mc}
    /\ UNCHANGED <<lockVars, sideVars, sessVars, serverVars, configVars, cacheVars, posVars, histVars, pc, mc,
                   cur, dumpBinLogStatus, connStatus, connectionId, mysqlConn,
                   Status, result, api, wd>>

(***************************************************************************)
(* The agent is stopped at any moment and started again: a new process     *)
(* calls StartDumpBinlog with the (file, position) the old one held.  The  *)
(* old process's connections are gone, its parser state is lost.           *)
(***************************************************************************)
Restart ==
    /\ restarts < MaxRestarts
    /\ restarts' = restarts + 1
    /\ restartAt' = Len(delivered)
    /\ lastOp' = "StartDumpBinlog"
    /\ posAtRead' = <<binlogFileName, binlogPosition>>
    /\ connAlive' = {}
    /\ pc' = "loop"
    /\ mc' = 0
    /\ cur' = Nil
    /\ dumpBinLogStatus' = 1
    /\ tableMap' = {}
    /\ tableNameMap' = {}
    /\ tableSchemaMap' = [t \in Tids |-> 0]
    /\ connStatus' = 0
    /\ connectionId' = 0
    /\ mysqlConn' = 0
    /\ Status' = ""
    /\ result' = ""
    /\ api' = "idle"
    /\ binlog_checksum' = FALSE
    /\ dumpCmd' = <<>>
    /\ UNCHANGED <<server, lockVars, sideVars, watchVars, binlog, nextConn, cursor, configVars, posVars, delivered, ops>>

Controller ==
    \/ StartLoop
    \/ OpenConn
    \/ GetConnectionId
    \/ Bootstrap
    \/ SendDumpCommand
    \/ DumpLoopTop
    \/ ReadPacket
    \/ Callback
    \/ AdvancePosition
    \/ CloseDumpConn
    \/ SetExitStatus
    \/ KillOwnConnection

Caller ==
    \/ SetConnNil
    \/ KillDumpKill
    \/ KillDumpClose

\* One run of the agent, nobody interfering.
Next == Controller

Spec == Init /\ [][Next]_vars

\* The agent, stopped and started again from the position it held.
RestartNext == Controller \/ Restart

RestartSpec == Init /\ [][RestartNext]_vars

\* The agent and a goroutine calling the control operations.
ControlNext ==
    \/ Controller
    \/ Stop
    \/ Start
    \/ Close
    \/ KillDump
    \/ Caller

ControlSpec == ControlInit /\ [][ControlNext]_vars

\* One run of the agent over the traffic of the error paths.
PacketSpec == PacketInit /\ [][Next]_vars

\* The server, or the network, ends the dump connection while a dump is
\* requested or running: the agent's next write or read on it fails.
ServerCloses ==
    /\ pc \in {"dumpcmd", "dumploop", "read"}
    /\ mysqlConn \in connAlive
    /\ connAlive' = connAlive \ {mysqlConn}
    /\ UNCHANGED <<lockVars, sideVars, sessVars, watchVars, binlog, nextConn, cursor, configVars, cacheVars,
                   posVars, histVars, pc, mc, cur, dumpBinLogStatus, connStatus,
                   connectionId, mysqlConn, Status, result, api>>

\* Traffic with event types parseEvent has no case for, everything known
\* or only Query events subscribed, with and without a database include-set.
TypeChoices ==
    { Packet("QUERY_EVENT", "db2", "", 0),
      Packet("XID_EVENT", "", "", 0),
      Packet("EVENT_36", "", "", 0),
      Packet("EVENT_255", "", "", 0) }

TypeInit ==
    InitWith([1..MaxEvents -> TypeChoices], {EventTypes, {"QUERY_EVENT"}},
             {{}, {"db2"}}, {<<0, 0>>, <<StartFile, StartPos + 2>>})

TypeSpec == TypeInit /\ [][Next]_vars

\* Traffic that ends sessions: an EOF packet, an event that does not
\* decode, a connection the server closes.
RetryChoices ==
    { Packet("QUERY_EVENT", "db2", "", 0),
      Packet("ROTATE_EVENT", "", "", 0),
      Bad(Packet("TABLE_MAP_EVENT", "db1", "", 1)),
      EofPacket }

RetryInit ==
    InitWith([1..MaxEvents -> RetryChoices], {EventTypes}, {{}},
             {<<0, 0>>, <<StartFile, StartPos + 2>>})

(***************************************************************************)
(* The checkpoint writer of lib/sync.go.                                   *)
(***************************************************************************)
\* fmt.Sprintf("%s:%d", file, position)
Sprintf(file, pos) == <<file, pos>>

\* CheckBinlogFilePos: a string with a file name before the colon.
CheckBinlogFilePos(str) == str[1] # 0

\* What one call of SyncBinlogFilenamePos can come to: the string refused,
\* the file not opened, the file truncated and the write failed, the write
\* done.
SyncOutcomes == {"invalid", "open error", "write error", "written"}

\* The checkpoint history after SyncBinlogFilenamePos(str) with outcome o:
\* what the file holds now, and whether the coordinator got the string.
SyncBinlogFilenamePos(str, o) ==
    CASE o = "written" ->
             Append(checkpoint, [file |-> str, zk |-> dumpConfig.Zookeeper])
      [] o = "write error" -> Append(checkpoint, [file |-> <<>>, zk |-> FALSE])
      [] OTHER -> checkpoint

\* One turn of the loop of InstantSync.
InstantSync ==
    LET newPos == Sprintf(dumpConfig.BinlogDumpFileName, dumpConfig.BinlogDumpPosition)
    IN  /\ Len(checkpoint) < MaxWrites
        /\ IF newPos # dumpConfig.SyncPos
           THEN \E o \in SyncOutcomes :
                    /\ (o = "invalid") = ~CheckBinlogFilePos(newPos)
                    /\ checkpoint' = SyncBinlogFilenamePos(newPos, o)
           ELSE UNCHANGED checkpoint
        /\ UNCHANGED <<ctlVars, dumpConfig, wire, decoded>>

\* The agent's callback stores the position of the event it was given.
PositionMoves ==
    /\ \/ /\ dumpConfig.BinlogDumpPosition < StartPos + MaxEvents
          /\ dumpConfig' = [dumpConfig EXCEPT !.BinlogDumpPosition = @ + 1]
       \/ /\ dumpConfig.BinlogDumpFileName < StartFile + 1
          /\ dumpConfig' = [dumpConfig EXCEPT !.BinlogDumpFileName = @ + 1,
                                              !.BinlogDumpPosition = FirstEventPos]
    /\ UNCHANGED <<ctlVars, checkpoint, wire, decoded>>

SyncInit ==
    /\ ControllerIdle
    /\ \E f \in {0, StartFile}, s \in {<<>>, <<StartFile, StartPos>>}, zk \in BOOLEAN :
           dumpConfig = DumpConfig(f, StartPos, s, zk)
    /\ checkpoint = <<>>
    /\ NoInput

SyncNext ==
    \/ InstantSync
    \/ PositionMoves

SyncSpec == SyncInit /\ [][SyncNext]_vars

(***************************************************************************)
(* The column decoders of parseEventRow, run on their own: `wire` is what  *)
(* the server wrote and the schema session answered, `decoded` the results *)
(* of the runs so far.  A decoded value is [t, v]: the Go type it has and  *)
(* its value as a number (1 and 0 for true and false, 0 for nil).          *)
(***************************************************************************)
Value(t, v) == [t |-> t, v |-> v]

Bytes == 0..255

\* A string as its words, for strings.Contains.
Has(words, w) == \E k \in 1..Len(words) : words[k] = w

\* The column_schema_type GetTableSchemaByName makes of a row of
\* information_schema.columns; members: the names between the quotes of a
\* set(...) type, in order.
column_schema_type(name, key, type, members) ==
    [COLUMN_NAME |-> name, COLUMN_KEY |-> key, COLUMN_TYPE |-> type,
     is_bool |-> type = <<"tinyint(1)">>,
     unsigned |-> Has(type, "unsigned"),
     is_primary |-> key # "",
     set_values |-> members]

int8(b) == IF b >= 128 THEN b - 256 ELSE b

int16(w) == IF w >= 32768 THEN w - 65536 ELSE w

\* A decoder for which every byte but 0 is true.
TinyNonZeroIsTrue(b, sch) ==
    IF sch.is_bool THEN Value("bool", IF b = 0 THEN 0 ELSE 1)
    ELSE IF sch.unsigned THEN Value("uint8", b)
    ELSE Value("int8", int8(b))

\* case FIELD_TYPE_TINY, for the byte b read from the buffer
Tiny(b, sch) ==
    IF sch.is_bool /\ b = 1 THEN Value("bool", 1)
    ELSE IF sch.is_bool /\ b = 0 THEN Value("bool", 0)
    ELSE IF sch.unsigned THEN Value("uint8", b)
    ELSE Value("int8", int8(b))

TinyTypes ==
    { <<"tinyint(1)">>, <<"tinyint(4)">>, <<"tinyint(1)", "unsigned">>,
      <<"tinyint(3)", "unsigned">> }

TinyInputs == { [kind |-> "TINY", b |-> b, type |-> t] : b \in Bytes, t \in TinyTypes }

DecodeTiny ==
    /\ wire.kind = "TINY"
    /\ Len(decoded) < MaxRuns
    /\ decoded' = Append(decoded,
                         Tiny(wire.b, column_schema_type("c1", "", wire.type, <<>>)))
    /\ UNCHANGED <<ctlVars, dumpConfig, checkpoint, wire>>

\* A TINY column of every schema type, every byte on the wire.
TinyInit ==
    /\ ControllerIdle
    /\ NoSync
    /\ wire \in TinyInputs
    /\ decoded = <<>>

TinySpec == TinyInit /\ [][DecodeTiny]_vars

\* Bit j of the number v (0 for the bits no decoded value here reaches).
BitOf(v, j) == IF j > 30 THEN 0 ELSE (v \div (2^j)) % 2

\* A BIT(n) column as the server stores it: the value, given by the set
\* `ones` of the positions of its 1 bits, in (n + 7) / 8 bytes, the most
\* significant first; the table map carries n % 8 and n / 8.
StoredByte(k, n, ones) ==
    LET low == (((n + 7) \div 8) - 1 - k) * 8
        B(j) == IF low + j \in ones THEN 2^j ELSE 0
    IN  B(0) + B(1) + B(2) + B(3) + B(4) + B(5) + B(6) + B(7)

StoredBit(n, ones) == [k \in 1..((n + 7) \div 8) |-> StoredByte(k - 1, n, ones)]

\* parseColumnMetadata, case FIELD_TYPE_BIT, on the two metadata bytes of
\* BIT(n); the arithmetic is that of uint8.
ColumnMetaBit(n) ==
    LET bits  == n % 8
        bytes == n \div 8
        all   == ((bytes * 8) + bits) % 256
    IN  [bits |-> all, bytes |-> ((all + 7) % 256) \div 8]

\* The characters one byte adds to resp: its `end` low bits, the highest first.
ByteBits(data, k, meta) ==
    LET end == IF k = 0
               THEN IF meta.bytes = 1 THEN meta.bits
                    ELSE IF meta.bits % 8 = 0 THEN 8 ELSE meta.bits % 8
               ELSE 8
    IN  [c \in 1..end |-> BitOf(data, end - c)]

RECURSIVE Resp(_, _, _)
Resp(k, buf, meta) ==
    IF k >= meta.bytes THEN <<>>
    ELSE ByteBits(buf[k + 1], k, meta) \o Resp(k + 1, buf, meta)

\* The bitSize argument of the call of strconv.ParseInt.
bitSize == 10

\* The number the characters of resp from the k-th on spell in base 2.
RECURSIVE Spelt(_, _)
Spelt(resp, k) ==
    IF k > Len(resp) THEN 0
    ELSE (resp[k] * (2^(Len(resp) - k))) + Spelt(resp, k + 1)

\* strconv.ParseInt(resp, 2, bitSize), the error dropped: the number resp
\* spells when it is below 2^(bitSize-1), that is when no 1 stands before
\* the last bitSize-1 characters; else 2^(bitSize-1) - 1.
ParseInt(resp) ==
    LET low == Max({1, Len(resp) - bitSize + 2})
    IN  IF \E k \in 1..(low - 1) : resp[k] = 1 THEN (2^(bitSize - 1)) - 1
        ELSE Spelt(resp, low)

\* case FIELD_TYPE_BIT
Bit(buf, meta) == Value("int64", ParseInt(Resp(0, buf, meta)))

BitWidths == {1, 8, 9, 10, 16, 17, 32, 64}

BitInputs ==
    UNION { { [kind |-> "BIT", n |-> n, ones |-> o] :
                o \in SUBSET ({0, 1, 8, 9, n - 1} \cap 0..(n - 1)) } :
            n \in BitWidths }

DecodeBit ==
    /\ wire.kind = "BIT"
    /\ Len(decoded) < MaxRuns
    /\ decoded' = Append(decoded,
                         Bit(StoredBit(wire.n, wire.ones), ColumnMetaBit(wire.n)))
    /\ UNCHANGED <<ctlVars, dumpConfig, checkpoint, wire>>

\* BIT columns of several widths, bits set at both ends and around the
\* byte boundary.
BitInit ==
    /\ ControllerIdle
    /\ NoSync
    /\ wire \in BitInputs
    /\ decoded = <<>>

BitSpec == BitInit /\ [][DecodeBit]_vars

\* All the orders of the elements of S.
Perms(S) ==
    { f \in [1..Cardinality(S) -> S] : \A x \in S : \E k \in DOMAIN f : f[k] = x }

\* case FIELD_TYPE_SET, for a value of `size` 1: the members whose bit is
\* set in the byte, collected as the keys of a Go map.
SetMembers(index, set_values) ==
    { set_values[k] : k \in { k \in 1..Len(set_values) : BitOf(index, k - 1) = 1 } }

\* The lists `for key, _ := range result` can build: the keys of a map come
\* in an order the Go runtime chooses anew for each loop.
SetLists(index, set_values) == Perms(SetMembers(index, set_values))

SetInputs ==
    { [kind |-> "SET", b |-> b, members |-> <<"a", "b", "c", "d">>] : b \in 0..15 }

DecodeSet ==
    /\ wire.kind = "SET"
    /\ Len(decoded) < MaxRuns
    /\ \E f \in SetLists(wire.b, wire.members) :
           decoded' = Append(decoded, Value("[]string", f))
    /\ UNCHANGED <<ctlVars, dumpConfig, checkpoint, wire>>

\* A SET column of four members, every value.
SetInit ==
    /\ ControllerIdle
    /\ NoSync
    /\ wire \in SetInputs
    /\ decoded = <<>>

SetSpec == SetInit /\ [][DecodeSet]_vars

(***************************************************************************)
(* parseRowsEvent on the body of an UPDATE_ROWS_EVENTv2 of a table of two  *)
(* columns, a tinyint and a smallint.  A cell is what the server holds for *)
(* a column of a row image: NULL, or a value as an unsigned number.        *)
(***************************************************************************)
Cell(null, v) == [null |-> null, v |-> v]

columnTypes == <<"TINY", "SHORT">>

RowSchema(keys) ==
    << column_schema_type("c1", keys[1], <<"tinyint(4)">>, <<>>),
       column_schema_type("c2", keys[2], <<"smallint(6)">>, <<>>) >>

Drop(buf, n) == SubSeq(buf, n + 1, Len(buf))

\* The server's side: the bytes of a row image, the NULL bitmap first, then
\* the columns that are not NULL, little-endian.
EncodeCell(type, cell) ==
    IF cell.null THEN <<>>
    ELSE IF type = "TINY" THEN <<cell.v>>
    ELSE <<cell.v % 256, cell.v \div 256>>

EncodeImage(image) ==
    << (IF image[1].null THEN 1 ELSE 0) + (IF image[2].null THEN 2 ELSE 0) >>
        \o EncodeCell(columnTypes[1], image[1])
        \o EncodeCell(columnTypes[2], image[2])

RECURSIVE EncodeChanges(_)
EncodeChanges(changes) ==
    IF changes = <<>> THEN <<>>
    ELSE EncodeImage(Head(changes).before) \o EncodeImage(Head(changes).after)
             \o EncodeChanges(Tail(changes))

\* The body after the flags: extra-data length 2, the column count, the two
\* columns-present bitmaps, the images.
EncodeUpdateRows(changes) == <<2, 0, Len(columnTypes), 3, 3>> \o EncodeChanges(changes)

\* Bitfield.isSet
isSet(bits, index) == BitOf(bits[(index \div 8) + 1], index % 8) = 1

\* A decoder that leaves a NULL column out of the row.
NullColumnLeftOut(row, name) == row

\* row[column_name] = nil
NullColumn(row, name) == (name :> Value("nil", 0)) @@ row

\* case FIELD_TYPE_SHORT, for the two bytes read
Short(lo, hi, sch) ==
    IF sch.unsigned THEN Value("uint16", lo + (256 * hi))
    ELSE Value("int16", int16(lo + (256 * hi)))

\* The loop of parseEventRow over the columns from the i-th (counted from
\* 0) on: the row and what is left of the buffer.
RECURSIVE Columns(_, _, _, _, _)
Columns(i, buf, row, nullBitMap, schema) ==
    IF i >= Len(columnTypes) THEN [row |-> row, buf |-> buf]
    ELSE LET sch  == schema[i + 1]
             name == sch.COLUMN_NAME
         IN  IF isSet(nullBitMap, i)
             THEN Columns(i + 1, buf, NullColumn(row, name), nullBitMap, schema)
             ELSE IF columnTypes[i + 1] = "TINY"
             THEN Columns(i + 1, Drop(buf, 1),
                          (name :> Tiny(buf[1], sch)) @@ row, nullBitMap, schema)
             ELSE Columns(i + 1, Drop(buf, 2),
                          (name :> Short(buf[1], buf[2], sch)) @@ row,
                          nullBitMap, schema)

\* parseEventRow on a buffer of bytes
parseEventRowBytes(buf, schema) ==
    LET bitfieldSize == (Len(columnTypes) + 7) \div 8
    IN  Columns(0, Drop(buf, bitfieldSize), << >>, SubSeq(buf, 1, bitfieldSize), schema)

\* The loop over the schema that sets event.primary: every column with
\* is_primary and COLUMN_KEY "PRI" assigns its name, the last one stays.
Primary(schema, primary) ==
    LET pri == { k \in 1..Len(schema) :
                   schema[k].is_primary /\ schema[k].COLUMN_KEY = "PRI" }
    IN  IF pri = {} THEN primary ELSE schema[Max(pri)].COLUMN_NAME

\* for buf.Len() > 0 { ... }
RECURSIVE RowsLoop(_, _, _)
RowsLoop(buf, event, schema) ==
    IF Len(buf) = 0 THEN event
    ELSE LET r == parseEventRowBytes(buf, schema)
         IN  RowsLoop(r.buf,
                      [rows |-> Append(event.rows, r.row),
                       primary |-> Primary(schema, event.primary)],
                      schema)

\* parseRowsEvent from the extra-data length on, for an UPDATE_ROWS_EVENTv2
parseRowsEvent(buf, schema) ==
    LET extraDataLength == buf[1] + (256 * buf[2])
        b1 == Drop(buf, 2 + (extraDataLength \div 8))
        columnCount == b1[1]
        bitmap == (columnCount + 7) \div 8
    IN  RowsLoop(Drop(b1, 1 + (2 * bitmap)), [rows |-> <<>>, primary |-> ""], schema)

TinyCells == { Cell(TRUE, 0), Cell(FALSE, 255) }

ShortCells == { Cell(TRUE, 0), Cell(FALSE, 258) }

Images == { <<a, b>> : a \in TinyCells, b \in ShortCells }

Changes == [before : Images, after : Images]

KeyChoices == { <<"", "">>, <<"PRI", "">>, <<"MUL", "PRI">>, <<"PRI", "PRI">> }

RowsInputs ==
    UNION { { [kind |-> "UPDATE", changes |-> c, keys |-> k] :
                c \in [1..n -> Changes], k \in KeyChoices } :
            n \in 1..MaxChanges }

DecodeRows ==
    /\ wire.kind = "UPDATE"
    /\ Len(decoded) < MaxRuns
    /\ decoded' = Append(decoded, parseRowsEvent(EncodeUpdateRows(wire.changes),
                                                 RowSchema(wire.keys)))
    /\ UNCHANGED <<ctlVars, dumpConfig, checkpoint, wire>>

\* UPDATE rows events of one to MaxChanges changes, NULLs in every place,
\* on tables with no, one and two primary key columns.
RowsInit ==
    /\ ControllerIdle
    /\ NoSync
    /\ wire \in RowsInputs
    /\ decoded = <<>>

RowsSpec == RowsInit /\ [][DecodeRows]_vars

(***************************************************************************)
(* case FIELD_TYPE_INT24 of parseEventRow, on the three bytes of a column. *)
(***************************************************************************)
\* readFixedLengthInteger(buf, 3): the little-endian number of three bytes.
readFixedLengthInteger(bytes) == bytes[1] + (256 * bytes[2]) + (65536 * bytes[3])

\* x << n for an int8 x: the product, cut to eight bits.
ShlInt8(x, n) == int8((x * (2^n)) % 256)

\* a + b for two int8
AddInt8(a, b) == int8((a + b) % 256)

Int24(bytes, sch) ==
    IF sch.unsigned THEN Value("uint32", readFixedLengthInteger(bytes))
    ELSE LET a == int8(bytes[1])
             b == int8(bytes[2])
             c == int8(bytes[3])
         IN  Value("int32", AddInt8(AddInt8(a, ShlInt8(b, 8)), ShlInt8(c, 16)))

Int24Bytes == {0, 1, 2, 127, 128, 255}

Int24Inputs ==
    { [kind |-> "INT24", bytes |-> <<a, b, c>>, type |-> t] :
        a \in Int24Bytes, b \in Int24Bytes, c \in Int24Bytes,
        t \in { <<"mediumint(9)">>, <<"mediumint(8)", "unsigned">> } }

DecodeInt24 ==
    /\ wire.kind = "INT24"
    /\ Len(decoded) < MaxRuns
    /\ decoded' = Append(decoded,
                         Int24(wire.bytes, column_schema_type("c1", "", wire.type, <<>>)))
    /\ UNCHANGED <<ctlVars, dumpConfig, checkpoint, wire>>

\* Signed and unsigned mediumint columns over bytes of both signs.
Int24Init ==
    /\ ControllerIdle
    /\ NoSync
    /\ wire \in Int24Inputs
    /\ decoded = <<>>

Int24Spec == Int24Init /\ [][DecodeInt24]_vars

(***************************************************************************)
(* case FIELD_TYPE_NEWDECIMAL of parseEventRow.  The column is read        *)
(* through a paket: the buffer and the bytes put back in front of it.      *)
(***************************************************************************)
digits_per_integer == 9

compressed_bytes == <<0, 1, 1, 2, 2, 3, 3, 4, 4, 4>>

Paket(buf, buydata) == [buf |-> buf, buydata |-> buydata]

\* paket.read(n): the bytes put back first, then the buffer's, as many as
\* there are; the bytes read and the paket left.
read(p, n) ==
    LET all == p.buydata \o p.buf
        m   == IF n < Len(all) THEN n ELSE Len(all)
        back == IF m < Len(p.buydata) THEN Len(p.buydata) - m ELSE 0
    IN  [data |-> SubSeq(all, 1, m),
         p |-> Paket(SubSeq(all, m + 1 + back, Len(all)),
                     SubSeq(all, m + 1, m + back))]

\* paket.unread(bytes)
unread(p, bytes) == Paket(p.buf, bytes \o p.buydata)

\* uint8(b) ^ 128
FlipSign(b) == IF b >= 128 THEN b - 128 ELSE b + 128

\* n reads of four bytes, each formatted %09d: the groups and the paket left.
RECURSIVE Groups(_, _, _)
Groups(p, n, out) ==
    IF n <= 0 THEN [groups |-> out, p |-> p]
    ELSE LET r == read(p, 4)
         IN  Groups(r.p, n - 1, Append(out, [fmt |-> "%09d", bytes |-> r.data]))

\* The loop that follows res += "." with the bound of the second group loop.
FractionalLoopBound(uncomp_integral, uncomp_fractional) == uncomp_integral

\* The decimal as the groups before and after the point, and what is left
\* of the buffer for the next column.
NewDecimal(buf, precision, decimals) ==
    LET integral          == precision - decimals
        uncomp_integral   == integral \div digits_per_integer
        uncomp_fractional == decimals \div digits_per_integer
        comp_integral     == integral - (uncomp_integral * digits_per_integer)
        comp_fractional   == decimals - (uncomp_fractional * digits_per_integer)
        r0   == read(Paket(buf, <<>>), 1)
        b    == r0.data[1]
        p1   == unread(r0.p, <<FlipSign(b)>>)
        size == compressed_bytes[comp_integral + 1]
        r1   == IF size > 0 THEN read(p1, size) ELSE [data |-> <<>>, p |-> p1]
        head == IF size > 0 THEN <<[fmt |-> "%d", bytes |-> r1.data]>> ELSE <<>>
        g1   == Groups(r1.p, uncomp_integral, head)
        g2   == Groups(g1.p, FractionalLoopBound(uncomp_integral, uncomp_fractional), <<>>)
        fsize == compressed_bytes[comp_fractional + 1]
        r2   == IF fsize > 0 THEN read(g2.p, fsize) ELSE [data |-> <<>>, p |-> g2.p]
        tail == IF fsize > 0 THEN <<[fmt |-> "%0*d", bytes |-> r2.data]>> ELSE <<>>
    IN  [negative |-> b < 128,
         integral |-> g1.groups,
         fractional |-> g2.groups \o tail,
         rest |-> r2.p.buydata \o r2.p.buf]

\* The bytes the server writes for a DECIMAL(precision, decimals) column.
DecimalSize(precision, decimals) ==
    LET integral == precision - decimals
    IN  compressed_bytes[(integral % 9) + 1] + (4 * (integral \div 9))
            + (4 * (decimals \div 9)) + compressed_bytes[(decimals % 9) + 1]

\* The bytes of the next columns of the row.
NextColumns == <<201, 202, 203, 204, 205, 206, 207, 208>>

DecimalColumns ==
    { pd \in {1, 5, 9, 10, 14, 18, 19, 20, 27, 28, 30, 38, 65}
              \X {0, 2, 4, 9, 10, 18, 30} : pd[2] <= pd[1] }

DecimalInputs ==
    { [kind |-> "NEWDECIMAL", precision |-> pd[1], decimals |-> pd[2],
       bytes |-> [k \in 1..DecimalSize(pd[1], pd[2]) |-> IF k = 1 THEN lead ELSE k]
                     \o NextColumns] :
        pd \in DecimalColumns, lead \in {0, 128} }

DecodeDecimal ==
    /\ wire.kind = "NEWDECIMAL"
    /\ Len(decoded) < MaxRuns
    /\ decoded' = Append(decoded, NewDecimal(wire.bytes, wire.precision, wire.decimals))
    /\ UNCHANGED <<ctlVars, dumpConfig, checkpoint, wire>>

\* Decimal columns of every shape of integral and fractional part, of both
\* signs, followed by the bytes of the next columns.
DecimalInit ==
    /\ ControllerIdle
    /\ NoSync
    /\ wire \in DecimalInputs
    /\ decoded = <<>>

DecimalSpec == DecimalInit /\ [][DecodeDecimal]_vars

(***************************************************************************)
(* The two mutexes, statement by statement.  parser.connLock guards the    *)
(* schema session parser.conn, BinlogDump.connLock the dump connection.    *)
(* A session is running on connection 1; the controller goroutine fetches  *)
(* schemas, ends the session and returns or opens the next connection,     *)
(* the caller calls Close or KillDump, and checkDumpConnection(1) runs as  *)
(* the statement `go This.checkDumpConnection(connectionId)` would start   *)
(* it.                                                                     *)
(***************************************************************************)
\* What is left alone by every step below.
lockRest ==
    <<binlog, cursor, pc, mc, cur, configVars, cacheVars, posVars, watchVars,
      sessVars, api, delivered, posAtRead, restarts, restartAt, sideVars>>

\* The variables a step takes part of.
Move(a, to) == stage' = [stage EXCEPT ![a] = to]

Goto(a, p) == Move(a, [stage[a] EXCEPT !.pc = p])

\* A call of a function of the schema session: GetTableSchema,
\* GetConnectionInfo or KillConnect.
Call(a, fn) == Move(a, At("lock", fn, "", 0))

\* The goroutine is between parser.connLock.Lock() and the Unlock() of one
\* of the functions of the schema session, or of the deferred function of
\* StartDumpBinlog.
InSession(a) ==
    stage[a].pc \in {"open", "op", "recover", "close", "unlock", "fin_status",
                     "fin_close", "fin_unlock"}

\* A Lock() that does not wait.
SessLockNoWait(a) ==
    /\ stage[a].pc = "lock"
    /\ connLock' = a
    /\ Goto(a, "open")
    /\ UNCHANGED <<lockRest, dumpLock, conn, connStatus, mysqlConn, connAlive,
                   connectionId, nextConn, dumpBinLogStatus, ops, lastOp, Status,
                   result>>

\* parser.connLock.Lock() at the head of the three functions
SessLock(a) ==
    /\ stage[a].pc = "lock"
    /\ connLock = ""
    /\ connLock' = a
    /\ Goto(a, "open")
    /\ UNCHANGED <<lockRest, dumpLock, conn, connStatus, mysqlConn, connAlive,
                   connectionId, nextConn, dumpBinLogStatus, ops, lastOp, Status,
                   result>>

\* if parser.connStatus == 0 { parser.initConn() }: Open fails and initConn
\* panics, or the session is open and connStatus is 1.
SessOpen(a) ==
    /\ stage[a].pc = "open"
    /\ IF connStatus = 0
       THEN \/ /\ conn' = TRUE
               /\ connStatus' = 1
               /\ Goto(a, "op")
            \/ /\ Move(a, [stage[a] EXCEPT !.pc = "recover", !.res = "nil"])
               /\ UNCHANGED <<conn, connStatus>>
       ELSE /\ Goto(a, "op")
            /\ UNCHANGED <<conn, connStatus>>
    /\ UNCHANGED <<lockRest, connLock, dumpLock, mysqlConn, connAlive,
                   connectionId, nextConn, dumpBinLogStatus, ops, lastOp, Status,
                   result>>

\* The statement on the session: it succeeds, it returns an error, or it
\* panics (Prepare has failed and the statement is nil).  "kill <id>" that
\* succeeds ends connection id; the process list has a row for a connection
\* that is open.
SessOp(a) ==
    /\ stage[a].pc = "op"
    /\ \E o \in {"ok", "err", "panic"} :
          /\ connAlive' = IF o = "ok" /\ stage[a].fn = "KillConnect"
                          THEN connAlive \ {connectionId}
                          ELSE connAlive
          /\ Move(a, [stage[a] EXCEPT
                        !.pc = IF o = "panic" THEN "recover" ELSE "unlock",
                        !.res = IF o # "ok" THEN "nil"
                                ELSE IF stage[a].fn # "GetConnectionInfo" THEN "ok"
                                ELSE IF 1 \in connAlive THEN "row"
                                ELSE "empty"])
    /\ UNCHANGED <<lockRest, connLock, dumpLock, conn, connStatus, mysqlConn,
                   connectionId, nextConn, dumpBinLogStatus, ops, lastOp, Status,
                   result>>

\* The deferred recover: if parser.connStatus == 1 { parser.connStatus = 0
SessRecover(a) ==
    /\ stage[a].pc = "recover"
    /\ IF connStatus = 1
       THEN /\ connStatus' = 0
            /\ Goto(a, "close")
       ELSE /\ connStatus' = connStatus
            /\ Goto(a, "unlock")
    /\ UNCHANGED <<lockRest, connLock, dumpLock, conn, mysqlConn, connAlive,
                   connectionId, nextConn, dumpBinLogStatus, ops, lastOp, Status,
                   result>>

\* parser.conn.Close() }
SessClose(a) ==
    /\ stage[a].pc = "close"
    /\ conn' = FALSE
    /\ Goto(a, "unlock")
    /\ UNCHANGED <<lockRest, connLock, dumpLock, connStatus, mysqlConn, connAlive,
                   connectionId, nextConn, dumpBinLogStatus, ops, lastOp, Status,
                   result>>

\* Where the goroutine goes on after the function has returned:
\* GetTableSchema calls again until there is no error; the watchdog asks
\* again for a nil result, three times at most, and then takes the lock
\* itself; KillConnect is the last statement of startConnAndDumpBinlog and
\* is followed by the close of the dump connection in KillDump.
AfterSession(a) ==
    CASE stage[a].fn = "GetTableSchema" ->
             IF stage[a].res = "ok" THEN At("run", "", "", 0)
             ELSE At("lock", "GetTableSchema", "", 0)
      [] stage[a].fn = "GetConnectionInfo" ->
             IF stage[a].res = "nil" /\ stage[a].tries + 1 < 3
             THEN At("lock", "GetConnectionInfo", "", stage[a].tries + 1)
             ELSE At("wd_lock", "", stage[a].res, 0)
      [] OTHER ->
             IF a = "loop" THEN At("again", "", "", 0)
             ELSE At("kd_close", "", "", 0)

\* parser.connLock.Unlock(), and the return
SessUnlock(a) ==
    /\ stage[a].pc = "unlock"
    /\ connLock' = ""
    /\ Move(a, AfterSession(a))
    /\ UNCHANGED <<lockRest, dumpLock, conn, connStatus, mysqlConn, connAlive,
                   connectionId, nextConn, dumpBinLogStatus, ops, lastOp, Status,
                   result>>

\* The dump loop: a TableMap or an ALTER TABLE makes it call GetTableSchema,
\* or DumpBinlog returns.
LoopRuns ==
    /\ stage["loop"].pc = "run"
    /\ \/ Call("loop", "GetTableSchema")
       \/ Goto("loop", "end_lock")
    /\ UNCHANGED <<lockRest, connLock, dumpLock, conn, connStatus, mysqlConn,
                   connAlive, connectionId, nextConn, dumpBinLogStatus, ops,
                   lastOp, Status, result>>

\* Step 6 of startConnAndDumpBinlog: This.connLock.Lock()
LoopEndLock ==
    /\ stage["loop"].pc = "end_lock"
    /\ dumpLock = ""
    /\ dumpLock' = "loop"
    /\ Goto("loop", "end_close")
    /\ UNCHANGED <<lockRest, connLock, conn, connStatus, mysqlConn, connAlive,
                   connectionId, nextConn, dumpBinLogStatus, ops, lastOp, Status,
                   result>>

\* if This.mysqlConn != nil { Close(); This.mysqlConn = nil }; Unlock();
\* then the exit status of step 7 and the call of KillConnect.
LoopEndClose ==
    /\ stage["loop"].pc = "end_close"
    /\ connAlive' = connAlive \ {mysqlConn}
    /\ mysqlConn' = 0
    /\ dumpLock' = ""
    /\ IF dumpBinLogStatus = 3
       THEN UNCHANGED <<result, Status>>
       ELSE IF dumpBinLogStatus = 2
       THEN /\ result' = "close"
            /\ Status' = "close"
       ELSE /\ result' = "starting"
            /\ Status' = "stop"
    /\ Call("loop", "KillConnect")
    /\ UNCHANGED <<lockRest, connLock, conn, connStatus, connectionId, nextConn,
                   dumpBinLogStatus, ops, lastOp>>

\* Back in the loop of StartDumpBinlog: it returns when the register is 2
\* or 3, else it opens the next dump connection and dumps again.
LoopAgain ==
    /\ stage["loop"].pc = "again"
    /\ IF dumpBinLogStatus \in {2, 3}
       THEN /\ result' = IF dumpBinLogStatus = 2 THEN "close" ELSE result
            /\ Goto("loop", "fin_lock")
            /\ UNCHANGED <<mysqlConn, connAlive, connectionId, nextConn>>
       ELSE /\ nextConn <= MaxConns
            /\ mysqlConn' = nextConn
            /\ connAlive' = connAlive \cup {nextConn}
            /\ connectionId' = nextConn
            /\ nextConn' = nextConn + 1
            /\ result' = "running"
            /\ Goto("loop", "run")
    /\ UNCHANGED <<lockRest, connLock, dumpLock, conn, connStatus,
                   dumpBinLogStatus, ops, lastOp, Status>>

\* The deferred function of StartDumpBinlog: This.parser.connLock.Lock()
LoopFinalLock ==
    /\ stage["loop"].pc = "fin_lock"
    /\ connLock = ""
    /\ connLock' = "loop"
    /\ Goto("loop", "fin_status")
    /\ UNCHANGED <<lockRest, dumpLock, conn, connStatus, mysqlConn, connAlive,
                   connectionId, nextConn, dumpBinLogStatus, ops, lastOp, Status,
                   result>>

\* if This.parser.connStatus == 1 { This.parser.connStatus = 0
LoopFinalStatus ==
    /\ stage["loop"].pc = "fin_status"
    /\ IF connStatus = 1
       THEN /\ connStatus' = 0
            /\ Goto("loop", "fin_close")
       ELSE /\ connStatus' = connStatus
            /\ Goto("loop", "fin_unlock")
    /\ UNCHANGED <<lockRest, connLock, dumpLock, conn, mysqlConn, connAlive,
                   connectionId, nextConn, dumpBinLogStatus, ops, lastOp, Status,
                   result>>

\* This.parser.conn.Close() }
LoopFinalClose ==
    /\ stage["loop"].pc = "fin_close"
    /\ conn' = FALSE
    /\ Goto("loop", "fin_unlock")
    /\ UNCHANGED <<lockRest, connLock, dumpLock, connStatus, mysqlConn, connAlive,
                   connectionId, nextConn, dumpBinLogStatus, ops, lastOp, Status,
                   result>>

\* This.parser.connLock.Unlock(); StartDumpBinlog has returned.
LoopFinalUnlock ==
    /\ stage["loop"].pc = "fin_unlock"
    /\ connLock' = ""
    /\ Goto("loop", "returned")
    /\ UNCHANGED <<lockRest, dumpLock, conn, connStatus, mysqlConn, connAlive,
                   connectionId, nextConn, dumpBinLogStatus, ops, lastOp, Status,
                   result>>

\* Close or KillDump is called: it waits for This.connLock.
CallerCalls ==
    /\ stage["caller"].pc = "idle"
    /\ ops < MaxOps
    /\ \E op \in {"Close", "KillDump"} :
          /\ lastOp' = op
          /\ Move("caller", At("api_lock", op, "", 0))
    /\ ops' = ops + 1
    /\ UNCHANGED <<lockRest, connLock, dumpLock, conn, connStatus, mysqlConn,
                   connAlive, connectionId, nextConn, dumpBinLogStatus, Status,
                   result>>

\* This.connLock.Lock(), the register, and for KillDump the call of
\* KillConnect(This.parser.connectionId)
CallerLock ==
    /\ stage["caller"].pc = "api_lock"
    /\ dumpLock = ""
    /\ dumpLock' = "caller"
    /\ IF stage["caller"].fn = "Close"
       THEN /\ dumpBinLogStatus' = 2
            /\ Move("caller", At("kd_close", "", "", 0))
       ELSE /\ dumpBinLogStatus' = 3
            /\ Call("caller", "KillConnect")
    /\ UNCHANGED <<lockRest, connLock, conn, connStatus, mysqlConn, connAlive,
                   connectionId, nextConn, ops, lastOp, Status, result>>

\* This.mysqlConn.Close(); This.mysqlConn = nil; a nil connection panics,
\* which is recovered.  The deferred This.connLock.Unlock() follows.
CallerClose ==
    /\ stage["caller"].pc = "kd_close"
    /\ connAlive' = connAlive \ {mysqlConn}
    /\ mysqlConn' = 0
    /\ dumpLock' = ""
    /\ Goto("caller", "idle")
    /\ UNCHANGED <<lockRest, connLock, conn, connStatus, connectionId, nextConn,
                   dumpBinLogStatus, ops, lastOp, Status, result>>

\* checkDumpConnection(1): time.Sleep(9 s), the test of the register, and
\* the first GetConnectionInfo of the round
WatchWakes ==
    /\ stage["watchdog"].pc = "sleep"
    /\ IF dumpBinLogStatus >= 2
       THEN Goto("watchdog", "done")
       ELSE Call("watchdog", "GetConnectionInfo")
    /\ UNCHANGED <<lockRest, connLock, dumpLock, conn, connStatus, mysqlConn,
                   connAlive, connectionId, nextConn, dumpBinLogStatus, ops,
                   lastOp, Status, result>>

\* This.parser.connLock.Lock()
WatchLocks ==
    /\ stage["watchdog"].pc = "wd_lock"
    /\ connLock = ""
    /\ connLock' = "watchdog"
    /\ Goto("watchdog", "wd_test")
    /\ UNCHANGED <<lockRest, dumpLock, conn, connStatus, mysqlConn, connAlive,
                   connectionId, nextConn, dumpBinLogStatus, ops, lastOp, Status,
                   result>>

\* The tests under the lock: another connection id ends the watchdog, the
\* lock released; no row makes it go for the dump connection; a row sends
\* it back to sleep, the lock released.
WatchTests ==
    /\ stage["watchdog"].pc = "wd_test"
    /\ IF connectionId # 1
       THEN /\ connLock' = ""
            /\ Goto("watchdog", "done")
       ELSE IF stage["watchdog"].res \in {"nil", "empty"}
       THEN /\ connLock' = connLock
            /\ Goto("watchdog", "wd_dlock")
       ELSE /\ connLock' = ""
            /\ Move("watchdog", At("sleep", "", "", 0))
    /\ UNCHANGED <<lockRest, dumpLock, conn, connStatus, mysqlConn, connAlive,
                   connectionId, nextConn, dumpBinLogStatus, ops, lastOp, Status,
                   result>>

\* This.connLock.Lock()
WatchDumpLock ==
    /\ stage["watchdog"].pc = "wd_dlock"
    /\ dumpLock = ""
    /\ dumpLock' = "watchdog"
    /\ Goto("watchdog", "wd_close")
    /\ UNCHANGED <<lockRest, connLock, conn, connStatus, mysqlConn, connAlive,
                   connectionId, nextConn, dumpBinLogStatus, ops, lastOp, Status,
                   result>>

\* if This.mysqlConn != nil { Close(); This.mysqlConn = nil };
\* This.connLock.Unlock(); break
WatchCloses ==
    /\ stage["watchdog"].pc = "wd_close"
    /\ connAlive' = connAlive \ {mysqlConn}
    /\ mysqlConn' = 0
    /\ dumpLock' = ""
    /\ Goto("watchdog", "done")
    /\ UNCHANGED <<lockRest, connLock, conn, connStatus, connectionId, nextConn,
                   dumpBinLogStatus, ops, lastOp, Status, result>>

\* The server ends the dump connection.
DumpConnectionDies ==
    /\ mysqlConn \in connAlive
    /\ connAlive' = connAlive \ {mysqlConn}
    /\ UNCHANGED <<lockRest, lockVars, connStatus, mysqlConn, connectionId,
                   nextConn, dumpBinLogStatus, ops, lastOp, Status, result>>

Session ==
    \E a \in Actors :
        \/ SessLock(a)
        \/ SessOpen(a)
        \/ SessOp(a)
        \/ SessRecover(a)
        \/ SessClose(a)
        \/ SessUnlock(a)

LockNext ==
    \/ Session
    \/ LoopRuns
    \/ LoopEndLock
    \/ LoopEndClose
    \/ LoopAgain
    \/ LoopFinalLock
    \/ LoopFinalStatus
    \/ LoopFinalClose
    \/ LoopFinalUnlock
    \/ CallerCalls
    \/ CallerLock
    \/ CallerClose
    \/ WatchWakes
    \/ WatchLocks
    \/ WatchTests
    \/ WatchDumpLock
    \/ WatchCloses
    \/ DumpConnectionDies

\* The first session is running: the dump connection 1 is open and has its
\* id, the schema session is closed, no lock is held.
LockInit ==
    /\ binlog = <<>>
    /\ connAlive = {1}
    /\ nextConn = 2
    /\ cursor = 1
    /\ pc = "read"
    /\ mc = 1
    /\ cur = Nil
    /\ dumpBinLogStatus = 1
    /\ binlogFileName = StartFile
    /\ binlogPosition = StartPos
    /\ posAtRead = <<StartFile, StartPos>>
    /\ maxBinlogFileName = 0
    /\ maxBinlogPosition = 0
    /\ replicateDoDb = {}
    /\ eventDo = EventTypes
    /\ tableMap = {}
    /\ tableNameMap = {}
    /\ tableSchemaMap = [t \in Tids |-> 0]
    /\ connStatus = 0
    /\ connectionId = 1
    /\ mysqlConn = 1
    /\ Status = ""
    /\ result = "running"
    /\ api = "idle"
    /\ delivered = <<>>
    /\ lastOp = "StartDumpBinlog"
    /\ ops = 0
    /\ restarts = 0
    /\ restartAt = 0
    /\ wd = [c \in Conns |-> Watchdog("off", 0, "nil")]
    /\ lost = {}
    /\ binlog_checksum = TRUE
    /\ dumpCmd = <<StartFile, StartPos>>
    /\ server = Server(TRUE, "CRC32")
    /\ NoSync
    /\ NoInput
    /\ connLock = ""
    /\ dumpLock = ""
    /\ conn = FALSE
    /\ stage = [a \in Actors |->
                   CASE a = "loop" -> At("run", "", "", 0)
                     [] a = "caller" -> At("idle", "", "", 0)
                     [] OTHER -> At("sleep", "", "", 0)]

LockSpec == LockInit /\ [][LockNext]_vars

\* StartDumpBinlog called with and without a file name, against every kind
\* of server.
StartChoices == { <<StartFile, StartPos>>, <<0, 0>>, <<0, StartPos>> }

BootChoices ==
    { Packet("QUERY_EVENT", "db2", "", 0),
      Packet("FORMAT_DESCRIPTION_EVENT", "", "", 0),
      EofPacket }

BootInit ==
    InitCore([1..MaxEvents -> BootChoices], {EventTypes}, {{}}, {<<0, 0>>},
             "off", StartChoices, Servers)

RetryNext ==
    \/ Controller
    \/ ServerCloses

RetrySpec == RetryInit /\ [][RetryNext]_vars

BootSpec == BootInit /\ [][RetryNext]_vars

\* The controller goroutine is scheduled, and a server that is up ends up
\* accepting a connection and answering SELECT connection_id().
FairRetrySpec ==
    /\ RetrySpec
    /\ WF_vars(Controller)
    /\ SF_vars(OpenConn /\ pc' = "connid")
    /\ SF_vars(GetConnectionId /\ pc' = "bootstrap")

\* One run of the agent over the traffic of the schema cache, the schema
\* session failing at will.
SchemaNext ==
    \/ Controller
    \/ FetchFails
    \/ FetchSucceeds

SchemaSpec == SchemaInit /\ [][SchemaNext]_vars

\* The agent with the watchdog of every connection, on a server that can
\* lose the dump connection.
WatchdogStep ==
    \E c \in Conns :
        \/ WatchdogWake(c)
        \/ WatchdogPoll(c)
        \/ WatchdogLock(c)
        \/ WatchdogClose(c)

WatchdogNext ==
    \/ Controller
    \/ WatchdogStep
    \/ LoseConnection

WatchdogSpec == WatchdogInit /\ [][WatchdogNext]_vars

\* The goroutines are scheduled: the controller and a caller inside Close or
\* KillDump take their next step whenever they can.  Nothing obliges the
\* server to send or a caller to call.
FairControlSpec == ControlSpec /\ WF_vars(Controller) /\ WF_vars(Caller)

(***************************************************************************)
(* Vocabulary of the properties.                                           *)
(***************************************************************************)
Last(s) == s[Len(s)]

\* The database a packet counts for: the one its ALTER TABLE names, else its own.
DbOf(p) == IF p.alter # "" THEN p.alter ELSE p.schema

\* The position the callback last saw stored, the starting position at first.
LastDeliveredPos ==
    IF delivered = <<>> THEN <<StartFile, StartPos>>
    ELSE <<Last(delivered).BinlogFileName, Last(delivered).LogPos>>

\* (f1, p1) is before (f2, p2): file first, then position.
LexLess(f1, p1, f2, p2) == f1 < f2 \/ (f1 = f2 /\ p1 < p2)

IsRotate(i) == i \in 1..Len(binlog) /\ binlog[i].type = "ROTATE_EVENT"

\* Packet j is of a type parseEvent hands on, subscribed, and of an included
\* database: the loop delivers it when it gets to it.
PassesStatically(j) ==
    /\ binlog[j].type \notin NilTypes
    /\ binlog[j].type \in eventDo
    /\ replicateDoDb # {} => DbOf(binlog[j]) \in replicateDoDb

DeliveredIdx == { delivered[k].idx : k \in 1..Len(delivered) }

\* The controller waits for the server at the end of the log.
AtEndOfLog == pc = "read" /\ mc \in connAlive /\ cursor > Len(binlog)

(***************************************************************************)
(* Properties.                                                             *)
(***************************************************************************)
\* C1, as stated: stopped at any point and started again from the position
\* it held, the agent resumes exactly where it stopped: of the events
\* delivered before the stop at most the last one is delivered again, and no
\* event after it that passes the filters is skipped.
C1_RestartResumesWhereItStopped ==
    restarts > 0 =>
        LET k     == IF restartAt = 0 THEN 0 ELSE delivered[restartAt].idx
            after == (restartAt + 1)..Len(delivered)
            due   == { j \in (k + 1)..Len(binlog) : PassesStatically(j) }
        IN  /\ \A m \in after :
                   \/ delivered[m].idx > k
                   \/ m = restartAt + 1 /\ delivered[m].idx = k
            /\ \A m \in after : \A j \in due :
                   j < delivered[m].idx => j \in DeliveredIdx
            /\ AtEndOfLog => due \subseteq DeliveredIdx

\* C2, as stated: the controller's (file, position) never goes back, file
\* first and then position, and the position alone gets smaller only in the
\* step that processes a Rotate event or the one right after it.
C2_PositionNeverGoesBack ==
    [][ /\ ~LexLess(binlogFileName', binlogPosition',
                    binlogFileName, binlogPosition)
        /\ binlogPosition' < binlogPosition =>
               IsRotate(cur'.idx) \/ IsRotate(cur'.idx - 1) ]_vars

\* C3, as stated: the current binlog file name changes only when a Rotate
\* event is processed; no event of another type changes it.
C3_FileNameChangesOnlyOnRotate ==
    [][ binlogFileName' # binlogFileName => cur'.EventType = "ROTATE_EVENT" ]_vars

\* C4, as stated: for every event type, Rotate included, the current
\* (file, position) is still that of the previously delivered event at the
\* moment the callback is called.
C4_PositionOfPreviousAtCallback ==
    pc = "callback" => <<binlogFileName, binlogPosition>> = LastDeliveredPos

\* C4, amended: while the callback of a delivered event runs, the current
\* (file, position) has not been advanced to that event: for every type but
\* Rotate it is what it was when the event's packet was read; for a Rotate
\* it is already the (filename, position) the Rotate names, which parseEvent
\* stored, and only the event's log_pos is stored after the callback.
C4_CallbackBeforeAdvance ==
    pc \in {"callback", "advance"} =>
        IF cur.EventType = "ROTATE_EVENT"
        THEN <<binlogFileName, binlogPosition>> =
                 <<cur.BinlogFileName, cur.BinlogPosition>>
        ELSE <<binlogFileName, binlogPosition>> = posAtRead

\* The callback has run for a second delivered event, not a Rotate, whose
\* log_pos is not the stored position.
C4_Witness ==
    /\ pc = "advance"
    /\ Len(delivered) >= 2
    /\ cur = Last(delivered)
    /\ cur.EventType # "ROTATE_EVENT"
    /\ binlogPosition # cur.LogPos

\* C5: every event given to the callback is of a subscribed type and, when
\* the database include-set is not empty, of a database in the set.
C5_DeliveredPassFilters ==
    \A k \in 1..Len(delivered) :
        LET ev == delivered[k]
        IN  /\ ev.EventType = binlog[ev.idx].type
            /\ ev.SchemaName = DbOf(binlog[ev.idx])
            /\ ev.EventType \in eventDo
            /\ replicateDoDb # {} => ev.SchemaName \in replicateDoDb

\* An event was delivered and another was dropped, under an include-set and
\* a subscription that leaves types out.
C5_Witness ==
    /\ delivered # <<>>
    /\ replicateDoDb # {}
    /\ eventDo # EventTypes
    /\ pc = "dumploop"
    /\ cur # Nil
    /\ cur # Last(delivered)

\* C6, as stated: with a maximum configured, no event at or after it is
\* delivered: neither one of the maximum's file with log_pos >= the maximum
\* position nor one of a later file.
C6_NothingDeliveredFromMaxOn ==
    maxBinlogFileName # 0 =>
        \A k \in 1..Len(delivered) :
            LET ev == delivered[k]
            IN  LexLess(FileAt(ev.idx), ev.LogPos,
                        maxBinlogFileName, maxBinlogPosition)

\* C7, as stated: with a maximum configured, an event delivered while the
\* current file is the maximum's file has log_pos below the maximum position;
\* once the maximum is met there is no reconnection, and StartDumpBinlog
\* returns with Status "close".
C7_BelowMaxInMaxFile ==
    maxBinlogFileName # 0 =>
        /\ (pc \in {"callback", "advance"} /\ binlogFileName = maxBinlogFileName)
               => cur.LogPos < maxBinlogPosition
        /\ dumpBinLogStatus = 2 =>
               pc \in {"sessclose", "sessstatus", "killconn", "loop", "returned"}
        /\ pc = "returned" => Status = "close"

\* C8, as stated: once Close has set the command register to 2, nothing
\* sets it back to 0 or 1 and no event is delivered any more.
C8_CloseIsFinal ==
    [][ dumpBinLogStatus = 2 =>
            /\ dumpBinLogStatus' \notin {0, 1}
            /\ delivered' = delivered ]_vars

\* C9, as stated: after Close, called at any point and followed by no other
\* control operation, StartDumpBinlog eventually returns.
C9_CloseEndsStartDumpBinlog ==
    (lastOp = "Close") ~> (pc = "returned" \/ lastOp # "Close")

\* C10, as stated: after KillDump, called at any point, also between the
\* loop's test of the register and the assignment of the new dump
\* connection, and followed by no other control operation, the dump loop is
\* eventually left and StartDumpBinlog is over (a crash of its goroutine is
\* taken for an end too).
C10_KillDumpEndsStartDumpBinlog ==
    (lastOp = "KillDump") ~>
        (pc \in {"returned", "panicked"} \/ lastOp # "KillDump")

\* The controller is about to read packet `cursor`, a Rows event.
ReadsRows ==
    /\ pc = "read"
    /\ mc \in connAlive
    /\ cursor <= Len(binlog)
    /\ binlog[cursor].type = "WRITE_ROWS_EVENTv2"

\* C13, as stated: a Rows event whose table id has no TableMap entry in the
\* parser fails with an error value: the error is reported, the session
\* ends and the controller goes on to reconnect; the process never crashes.
C13_RowsWithoutTableMapIsAnError ==
    [][ (ReadsRows /\ ~HasTable(tableMap, binlog[cursor].tid) /\ pc' # "read")
            => (pc' = "sessclose" /\ result' = "error") ]_vars

\* C14, as stated: processing a Rotate event sets the current (file,
\* position) to the ones it names and empties both caches, the table map
\* and the schema cache.
C14_RotateFlushesBothCaches ==
    [][ (pc = "read" /\ cursor' = cursor + 1 /\ binlog[cursor].type = "ROTATE_EVENT")
            => /\ binlogFileName' = FileAt(cursor) + 1
               /\ binlogPosition' = FirstEventPos
               /\ tableMap' = {}
               /\ \A t \in Tids : tableSchemaMap'[t] = 0 ]_vars

\* C16, as stated: whenever a Rows event of table id tid has been decoded,
\* the schema cache holds for tid as many entries as the TableMap event of
\* tid has column types.
C16_SchemaAsLongAsColumnTypes ==
    cur.EventType = "WRITE_ROWS_EVENTv2" =>
        tableSchemaMap[binlog[cur.idx].tid]
            = ColumnsOf(tableMap, binlog[cur.idx].tid)

\* The controller is about to read packet `cursor`, an ALTER TABLE of a
\* table whose id the parser knows.
ReadsAlterOfKnownTable ==
    /\ pc = "read"
    /\ mc \in connAlive
    /\ cursor <= Len(binlog)
    /\ binlog[cursor].type = "QUERY_EVENT"
    /\ binlog[cursor].alter # ""
    /\ GetTableId(tableNameMap, binlog[cursor].alter, "t") > 0

\* C17, as stated: after an ALTER TABLE of a table whose id is known, the
\* cached schema of that id is exactly the column list the schema client
\* returns after the ALTER: the old entries are replaced, not kept.
C17_AlterReplacesSchema ==
    [][ (ReadsAlterOfKnownTable /\ cursor' = cursor + 1) =>
            tableSchemaMap'[GetTableId(tableNameMap, binlog[cursor].alter, "t")]
                = ServerColumns ]_vars

\* The controller is about to read packet `cursor`, which is no event.
ReadsErrPacket ==
    /\ pc = "read"
    /\ mc \in connAlive
    /\ cursor <= Len(binlog)
    /\ binlog[cursor].type = "ERR_PACKET"

\* C11, as stated: on a packet that is no event and says "Could not find
\* first log file name in binary log index file" the controller closes for
\* good: the command register becomes 2 (so that no COM_BINLOG_DUMP follows
\* and StartDumpBinlog returns); any other such packet is reported and the
\* loop reads on, on the same session.
C11_NoFirstLogFileClosesForGood ==
    [][ (ReadsErrPacket /\ cursor' = cursor + 1) =>
            IF binlog[cursor].text = NoFirstLogFile
            THEN dumpBinLogStatus' = 2 /\ pc' = "sessclose"
            ELSE /\ result' = "Unknown packet"
                 /\ pc' = "dumploop"
                 /\ mc' = mc
                 /\ mc \in connAlive' ]_vars

\* The controller is about to read packet `cursor`, an event for which
\* parseEvent returns an error.
ReadsFailingEvent ==
    /\ pc = "read"
    /\ mc \in connAlive
    /\ cursor <= Len(binlog)
    /\ binlog[cursor].type # "ERR_PACKET"
    /\ ~parseEvent(cursor).panic
    /\ parseEvent(cursor).err

C15_FirstTableMapAfterRotateFetches ==
    [][ ( /\ pc \in {"read", "fetch"}
          /\ cursor' = cursor + 1
          /\ binlog[cursor].type = "TABLE_MAP_EVENT"
          /\ LastRotateBefore(cursor) > 0
          /\ \A j \in (LastRotateBefore(cursor) + 1)..(cursor - 1) :
                 ~(binlog[j].type = "TABLE_MAP_EVENT"
                   /\ binlog[j].tid = binlog[cursor].tid) )
            => tableSchemaMap[binlog[cursor].tid] = 0 ]_vars

\* C18, as stated: the keys of the row map of a decoded Rows event are the
\* column names the schema cache holds for the table id at that moment,
\* whatever the columns are, NULL and zero-valued YEAR columns included.
C18_RowKeysAreTheColumnNames ==
    [][ (ReadsRows /\ cursor' = cursor + 1 /\ pc' \in {"callback", "dumploop"})
            => cur'.Rows = { COLUMN_NAME(k) :
                               k \in 1..tableSchemaMap[binlog[cursor].tid] } ]_vars

\* C19, as stated: GetTableSchema returns only after an attempt succeeded,
\* and after every attempt that failed the schema session is closed
\* (connStatus = 0).
C19_FailedFetchClosesSession ==
    [][ /\ pc = "fetch" =>
               \/ pc' = "fetch"
               \/ /\ cursor' = cursor + 1
                  /\ \E t \in Tids : tableSchemaMap'[t] > tableSchemaMap[t]
        /\ pc' = "fetch" => connStatus' = 0 ]_vars

SessionOver == pc = "sessclose" /\ dumpBinLogStatus \notin {2, 3}

\* COM_BINLOG_DUMP has just been written on a new connection.
DumpIssued ==
    /\ pc = "dumploop"
    /\ mc = mysqlConn
    /\ mc = nextConn - 1

BeforeFirstDump == dumpCmd = <<>>

InDumpLoop == pc \in {"dumploop", "read", "fetch", "callback", "advance"}

(***************************************************************************)
(* C23: parser.binlog_checksum is assigned only by checksum_enabled, in    *)
(* the bootstrap of a session and before its COM_BINLOG_DUMP is written;   *)
(* no step of a dump loop changes it, so all the events of a session are   *)
(* parsed under one value of the flag.                                     *)
(***************************************************************************)
C23_ChecksumFlagSetInBootstrapOnly ==
    [][/\ binlog_checksum' # binlog_checksum => pc = "bootstrap" /\ pc' = "dumpcmd"
       /\ InDumpLoop => binlog_checksum' = binlog_checksum]_vars

\* A session on a server with checksums has events parsed under the flag
\* its bootstrap set.
C23_Witness ==
    /\ InDumpLoop
    /\ binlog_checksum
    /\ server.checksum = "CRC32"
    /\ delivered # <<>>

(***************************************************************************)
(* C24: once InstantSync has written the string P to the checkpoint file,  *)
(* it writes nothing to the file or the coordinator on a later turn on     *)
(* which the position still formats to P.                                  *)
(***************************************************************************)
C24_WritesOnlyOnChange ==
    [][/\ checkpoint # <<>>
       /\ Last(checkpoint).file =
              Sprintf(dumpConfig.BinlogDumpFileName, dumpConfig.BinlogDumpPosition)
       => checkpoint' = checkpoint]_vars

\* The controller is about to read packet `cursor`, an event of a type
\* that is not subscribed.
ReadsUnsubscribed ==
    /\ pc = "read"
    /\ mc \in connAlive
    /\ cursor <= Len(binlog)
    /\ binlog[cursor].type \notin eventDo

(***************************************************************************)
(* C27: an event whose type is not subscribed, whatever its type code in   *)
(* 0..255, is dropped: it is not delivered, the session neither fails nor  *)
(* crashes, and the loop goes on to the next packet.                       *)
(***************************************************************************)
C27_UnsubscribedTypeIsDropped ==
    [][ReadsUnsubscribed /\ pc' # "read"
          => pc' = "dumploop" /\ delivered' = delivered /\ result' = result]_vars

\* The decoder has run on a TINY column that is not NULL and whose schema
\* COLUMN_TYPE is "tinyint(1)".
DecodedBoolColumn ==
    /\ wire.kind = "TINY"
    /\ wire.type = <<"tinyint(1)">>
    /\ decoded # <<>>

\* C29, as stated: such a column decodes to a boolean for every byte 0..255.
C29_TinyInt1IsBoolean ==
    DecodedBoolColumn => \A k \in 1..Len(decoded) : decoded[k].t = "bool"

(***************************************************************************)
(* C29: a TINY column that is not NULL and whose schema COLUMN_TYPE is     *)
(* "tinyint(1)" decodes to true for the byte 1 and to false for the byte   *)
(* 0; every other byte decodes to the signed 8-bit integer it is.          *)
(***************************************************************************)
C29_TinyInt1IsBooleanForZeroAndOne ==
    DecodedBoolColumn =>
        \A k \in 1..Len(decoded) :
            decoded[k] = IF wire.b \in {0, 1} THEN Value("bool", wire.b)
                         ELSE Value("int8", IF wire.b < 128 THEN wire.b
                                            ELSE wire.b - 256)

\* The byte 200 of a tinyint(1) column has been decoded to -56.
C29_Witness ==
    /\ DecodedBoolColumn
    /\ wire.b = 200
    /\ decoded[1] = Value("int8", -56)

(***************************************************************************)
(* C30: a BIT(n) column decodes to the integer whose binary representation *)
(* is its n stored bits, for every n from 1 to 64 and every stored value.  *)
(***************************************************************************)
C30_BitDecodesToStoredValue ==
    wire.kind = "BIT" =>
        \A k \in 1..Len(decoded) :
            { j \in 0..(wire.n - 1) : BitOf(decoded[k].v, j) = 1 } = wire.ones

(***************************************************************************)
(* C25: two runs of the decoder on the same bytes, with the same answers   *)
(* of the schema session, give the same result, also for a SET column with *)
(* two or more members set.                                                *)
(***************************************************************************)
C25_DecodingIsDeterministic ==
    \A j, k \in 1..Len(decoded) : decoded[j] = decoded[k]

\* The row a row image stands for: a name for every column, nil for NULL.
ImageAsRow(image) ==
    [name \in {"c1", "c2"} |->
        LET cell == IF name = "c1" THEN image[1] ELSE image[2]
        IN  IF cell.null THEN Value("nil", 0)
            ELSE IF name = "c1"
            THEN Value("int8", IF cell.v < 128 THEN cell.v ELSE cell.v - 256)
            ELSE Value("int16", IF cell.v < 32768 THEN cell.v ELSE cell.v - 65536)]

(***************************************************************************)
(* C26: an UPDATE rows event of n logical changes decodes to a list of 2n  *)
(* rows in stream order, the before-image and then the after-image of each *)
(* change, a NULL column being nil in its image.                           *)
(***************************************************************************)
C26_UpdateGivesBeforeAndAfter ==
    wire.kind = "UPDATE" =>
        \A k \in 1..Len(decoded) :
            /\ Len(decoded[k].rows) = 2 * Len(wire.changes)
            /\ \A c \in 1..Len(wire.changes) :
                   /\ decoded[k].rows[(2 * c) - 1] = ImageAsRow(wire.changes[c].before)
                   /\ decoded[k].rows[2 * c] = ImageAsRow(wire.changes[c].after)

\* Two changes are decoded to four rows, the before-image of the second
\* with a NULL and the after-image without.
C26_Witness ==
    /\ wire.kind = "UPDATE"
    /\ Len(wire.changes) = 2
    /\ decoded # <<>>
    /\ Len(decoded[1].rows) = 4
    /\ decoded[1].rows[3]["c1"] = Value("nil", 0)
    /\ decoded[1].rows[4]["c1"] = Value("int8", -1)
    /\ decoded[1].rows[4]["c2"] = Value("int16", 258)

(***************************************************************************)
(* C28: the primary field of a decoded Rows event is the name of the first *)
(* column, in ordinal order, whose COLUMN_KEY is "PRI", and empty for a    *)
(* table with none.                                                        *)
(***************************************************************************)
C28_PrimaryIsFirstPriColumn ==
    wire.kind = "UPDATE" =>
        \A k \in 1..Len(decoded) :
            decoded[k].primary =
                IF wire.keys[1] = "PRI" THEN "c1"
                ELSE IF wire.keys[2] = "PRI" THEN "c2"
                ELSE ""

(***************************************************************************)
(* C31: a signed INT24 column whose bytes read as signed bytes a, b, c     *)
(* decodes to a + (b<<8) + (c<<16) with the contributions of b and c       *)
(* kept; an unsigned one decodes to the three-byte little-endian value.    *)
(***************************************************************************)
C31_Int24KeepsAllBytes ==
    wire.kind = "INT24" =>
        \A k \in 1..Len(decoded) :
            IF Has(wire.type, "unsigned")
            THEN decoded[k] = Value("uint32", wire.bytes[1] + (256 * wire.bytes[2])
                                                  + (65536 * wire.bytes[3]))
            ELSE decoded[k] = Value("int32", int8(wire.bytes[1])
                                                 + (256 * int8(wire.bytes[2]))
                                                 + (65536 * int8(wire.bytes[3])))

(***************************************************************************)
(* C32: the decoder of a NEWDECIMAL(precision, decimals) column consumes   *)
(* exactly the bytes of the column, emits floor(decimals/9) groups of nine *)
(* digits after the decimal point, and leaves the next column at the       *)
(* start of the buffer.                                                    *)
(***************************************************************************)
C32_DecimalConsumesItsBytes ==
    wire.kind = "NEWDECIMAL" =>
        \A k \in 1..Len(decoded) :
            /\ Len(wire.bytes) - Len(decoded[k].rest)
                   = DecimalSize(wire.precision, wire.decimals)
            /\ Cardinality({ g \in 1..Len(decoded[k].fractional) :
                                 decoded[k].fractional[g].fmt = "%09d" })
                   = wire.decimals \div 9
            /\ decoded[k].rest = NextColumns

(***************************************************************************)
(* C35: with no maximum position configured (empty file name, position 0)  *)
(* the maximum-position test never fires: no event of any type sets the    *)
(* command register to 2 or ends the dump loop because of it.              *)
(***************************************************************************)
C35_NoMaximumNeverFires ==
    [][maxBinlogFileName = 0 /\ maxBinlogPosition = 0 /\ pc = "read"
          => dumpBinLogStatus' = dumpBinLogStatus]_vars

\* The loop takes the event at the cursor off the stream.
TakesEvent ==
    /\ pc \in {"read", "fetch"}
    /\ cursor' = cursor + 1
    /\ binlog[cursor].type \notin {"ERR_PACKET", "EOF_PACKET"}

(***************************************************************************)
(* C36: an event that is not given to the callback (a Heartbeat and its    *)
(* like, or an event dropped by the database or the event-type filter)     *)
(* leaves the current (file, position) as it was, unless it is a Rotate    *)
(* event.                                                                  *)
(***************************************************************************)
C36_UndeliveredEventKeepsPosition ==
    [][TakesEvent /\ pc' # "callback" /\ binlog[cursor].type # "ROTATE_EVENT"
          => <<binlogFileName, binlogPosition>>' = <<binlogFileName, binlogPosition>>]_vars

\* A Heartbeat and a Query event of a database that is not replicated have
\* gone by, nothing was delivered and the position is the starting one.
C36_Witness ==
    /\ cursor = 3
    /\ pc = "dumploop"
    /\ binlog[1].type = "HEARTBEAT_EVENT"
    /\ binlog[2].type = "QUERY_EVENT"
    /\ replicateDoDb = {"db1"}
    /\ delivered = <<>>
    /\ <<binlogFileName, binlogPosition>> = <<StartFile, StartPos>>

(***************************************************************************)
(* C39: at most one dump connection is open at any time: a connection      *)
(* opened by startConnAndDumpBinlog is closed before the next attempt      *)
(* opens another, on every return path.                                    *)
(***************************************************************************)
C39_OneDumpConnectionAtATime == Cardinality(connAlive) <= 1

\* The dump loop is at its top with the command register at 0.
Paused == pc = "dumploop" /\ dumpBinLogStatus = 0

(***************************************************************************)
(* C34: while the command register is 0 the dump loop, once at its top,    *)
(* reads no packet, calls no callback and leaves the (file, position) as   *)
(* it is; a read begins only at the top of the loop with the register not  *)
(* 0, so that only the packet whose read was in flight when Stop was       *)
(* called is processed; and after Start the loop goes on reading, on the   *)
(* same session.                                                           *)
(***************************************************************************)
C34_PauseStopsTheLoop ==
    /\ [][Paused =>
             (/\ pc' = "dumploop"
              /\ <<cursor, delivered, binlogFileName, binlogPosition, mc>>'
                     = <<cursor, delivered, binlogFileName, binlogPosition, mc>>)]_vars
    /\ [][pc # "read" /\ pc' = "read" =>
             (pc = "dumploop" /\ dumpBinLogStatus # 0 /\ mc' = mc)]_vars
    /\ (pc = "dumploop" /\ dumpBinLogStatus = 1 /\ lastOp = "Start")
           ~> (pc = "read" \/ dumpBinLogStatus # 1)

\* The loop has paused (it has reported "stop"), Start was called, and the
\* loop is reading again on the first session.
C34_Witness ==
    /\ result = "stop"
    /\ lastOp = "Start"
    /\ dumpBinLogStatus = 1
    /\ pc = "read"
    /\ mc = 1
    /\ mc \in connAlive
    /\ nextConn = 2

(***************************************************************************)
(* C33: every use of the schema session is made holding parser.connLock,   *)
(* so at most one goroutine is inside the session at any time, and         *)
(* connStatus is 1 exactly when the session is open.                       *)
(***************************************************************************)
C33_SessionUsedUnderLock ==
    /\ \A a \in Actors : InSession(a) => connLock = a
    /\ Cardinality({ a \in Actors : InSession(a) }) <= 1
    /\ (\A a \in Actors : ~InSession(a)) => (connStatus = 1 <=> conn)

\* The caller is inside KillConnect with the session open while the dump
\* loop and the watchdog both wait for the lock.
C33_Witness ==
    /\ stage["caller"].pc = "op"
    /\ stage["caller"].fn = "KillConnect"
    /\ conn
    /\ stage["loop"].pc = "lock"
    /\ stage["watchdog"].pc = "lock"

WaitsFor(a) ==
    IF stage[a].pc \in {"lock", "fin_lock", "wd_lock"} THEN "connLock"
    ELSE IF stage[a].pc \in {"end_lock", "api_lock", "wd_dlock"} THEN "dumpLock"
    ELSE ""

Holder(m) == IF m = "connLock" THEN connLock ELSE IF m = "dumpLock" THEN dumpLock ELSE ""

====
